---- MODULE Spec2Model ----
(***************************************************************************)
(* turbo-islc: the TISL syntax tree (turbo_islc/ast.py) and the            *)
(* rust-wasmtime return-value planner (targets/rust_wasmtime).             *)
(*                                                                         *)
(* Python values are modelled as follows.                                  *)
(*  - A str is the sequence of its pieces: identifiers are sequences of    *)
(*    one-character strings, literal fragments of generated code are one   *)
(*    piece each.  Concatenation is \o, the empty str is <<>>.             *)
(*  - A dict is the sequence of its [key, value] entries in insertion      *)
(*    order, keys unique.                                                  *)
(*  - An object reference to a Module is the path of member indices that   *)
(*    leads to it from the list of root modules.                           *)
(*  - A call that may raise returns [raised, err, val].                    *)
(***************************************************************************)
EXTENDS Integers, Sequences, FiniteSets, TLC

VARIABLES
    tokens,      \* the token trees lex() returned, one per top-level form
    modules,     \* the root Modules parse() built from them (<<>> before)
    abi_types,   \* the class attribute Types.abi_types
    writers,     \* function -> the ReturnValueWriter last built for it
    first_ops,   \* function -> the first plan built for it, and whether rebuilt
    last         \* outcome of the latest as_record / as_enum call

vars == <<tokens, modules, abi_types, writers, first_ops, last>>

----------------------------------------------------------------------------
(* Bounds of the explored schemas.                                         *)

\* most fields of record a / return values of function f
MaxVals == 3

----------------------------------------------------------------------------
(* str helpers                                                             *)

RECURSIVE Join(_, _)
\* sep.join(items)
Join(sep, items) ==
    IF items = <<>> THEN <<>>
    ELSE IF Len(items) = 1 THEN items[1]
    ELSE items[1] \o sep \o Join(sep, Tail(items))

\* str.replace("-", "_") of jinja.to_snakecase
to_snakecase(kebab) ==
    [i \in 1..Len(kebab) |-> IF kebab[i] = "-" THEN "_" ELSE kebab[i]]

ReservedWords ==
    { <<"t","y","p","e">>, <<"s","e","l","f">>, <<"r","e","f">>,
      <<"r","e","t","u","r","n">> }

to_safe_snakecase(word) ==
    (IF word \in ReservedWords THEN <<"r#">> ELSE <<>>) \o to_snakecase(word)

LowerLetters == <<"a","b","c","d","e","f","g","h","i","j","k","l","m",
                  "n","o","p","q","r","s","t","u","v","w","x","y","z">>
UpperLetters == <<"A","B","C","D","E","F","G","H","I","J","K","L","M",
                  "N","O","P","Q","R","S","T","U","V","W","X","Y","Z">>

UpperChar(c) ==
    IF \E i \in 1..26 : LowerLetters[i] = c
    THEN UpperLetters[CHOOSE i \in 1..26 : LowerLetters[i] = c]
    ELSE c

\* str.upper()
upper(s) == [i \in 1..Len(s) |-> UpperChar(s[i])]

----------------------------------------------------------------------------
(* dict helpers                                                            *)

DictKeys(d) == [i \in 1..Len(d) |-> d[i].key]
DictValues(d) == [i \in 1..Len(d) |-> d[i].value]
DictHas(d, k) == \E i \in 1..Len(d) : d[i].key = k
DictAt(d, k) == d[CHOOSE i \in 1..Len(d) : d[i].key = k].value

\* mutant: a key already present keeps its first value
DictSet_keep_first(d, k, v) ==
    IF \E i \in 1..Len(d) : d[i].key = k THEN d
    ELSE Append(d, [key |-> k, value |-> v])

\* d[k] = v : a new key is appended, an old key keeps its place
DictSet(d, k, v) ==
    IF DictHas(d, k)
    THEN [i \in 1..Len(d) |-> IF d[i].key = k THEN [key |-> k, value |-> v]
                                               ELSE d[i]]
    ELSE Append(d, [key |-> k, value |-> v])

RECURSIVE DictOf(_)
\* {key(x): x for x in items}, items given as [key, value] entries
DictOf(entries) ==
    IF entries = <<>> THEN <<>>
    ELSE LET n == Len(entries)
         IN  DictSet(DictOf(SubSeq(entries, 1, n - 1)),
                     entries[n].key, entries[n].value)

----------------------------------------------------------------------------
(* errors                                                                  *)

NoErr == [type |-> "none", message |-> <<>>, lineno |-> 0, column |-> 0]

TurboSyntaxError(message, lineno, column) ==
    [type |-> "TurboSyntaxError", message |-> message,
     lineno |-> lineno, column |-> column]

KeyError(key) ==
    [type |-> "KeyError", message |-> key, lineno |-> 0, column |-> 0]

\* the value None
NoneV == [node |-> "None"]

Ok(v) == [raised |-> FALSE, err |-> NoErr, val |-> v]
Raise(e) == [raised |-> TRUE, err |-> e, val |-> NoneV]

----------------------------------------------------------------------------
(* DataType, Modifier                                                      *)

s_int == <<"i","n","t">>
s_float == <<"f","l","o","a","t">>
s_string == <<"s","t","r","i","n","g">>
s_bool == <<"b","o","o","l">>
s_bytes == <<"b","y","t","e","s">>

DataTypeValues == {s_int, s_float, s_string, s_bool, s_bytes}

\* a member of the DataType enum, by its value
DataType(v) == [cls |-> "DataType", val |-> v]
\* a plain str used as a data type or as a dict key
PyStr(v) == [cls |-> "str", val |-> v]

\* DataType.parse: DataType[expr.upper()]
DataType_parse(expr) ==
    IF expr \in DataTypeValues THEN Ok(DataType(expr))
    ELSE Raise(KeyError(upper(expr)))

\* Modifier.parse: Modifier[expr.upper().strip()]
Modifier_parse(expr) ==
    IF expr = <<"l","i","s","t">> THEN Ok("LIST")
    ELSE IF expr = <<"r","e","f">> THEN Ok("REF")
    ELSE Raise(KeyError(upper(expr)))

----------------------------------------------------------------------------
(* NamedTypeMixin                                                          *)

is_list(nt) == \E i \in 1..Len(nt.modifiers) : nt.modifiers[i] = "LIST"

is_reference(nt) == \E i \in 1..Len(nt.modifiers) : nt.modifiers[i] = "REF"

\* mutant: the modifiers kept as written
bytes_forces_list_as_written(data_type, modifiers) == modifiers

\* the modifier list after "if data_type == BYTES and not is_list(): append"
bytes_forces_list(data_type, modifiers) ==
    IF data_type = DataType(s_bytes)
       /\ ~ \E i \in 1..Len(modifiers) : modifiers[i] = "LIST"
    THEN Append(modifiers, "LIST")
    ELSE modifiers

\* mutant: line and column exchanged
node_position_swapped(data_type) ==
    [line |-> data_type.column, column |-> data_type.line]

\* the line and column a node keeps from its type token
node_position(data_type) ==
    [line |-> data_type.line, column |-> data_type.column]

\* the node NamedTypeMixin.__init__ leaves, parsed being the outcome of
\* parsing the type name and mods those of parsing the modifiers
NamedTypeOf(cls, module, parent, name, data_type, parsed, mods) ==
    LET badmod == {i \in 1..Len(mods) : mods[i].raised}
        pos == node_position(data_type)
    IN  IF parsed.raised
        THEN Raise(TurboSyntaxError(<<"Unexpected data type ">> \o
                                    parsed.err.message,
                                    data_type.line, data_type.column))
        ELSE IF badmod # {}
        THEN Raise(TurboSyntaxError(
                 <<"Unexpected modifier ">> \o
                 mods[CHOOSE i \in badmod : \A j \in badmod : i <= j].err.message,
                 data_type.line, data_type.column))
        ELSE Ok([node |-> cls,
                 parent_module |-> module,
                 parent |-> parent,
                 name |-> name,
                 data_type |-> parsed.val,
                 modifiers |-> bytes_forces_list(
                     parsed.val, [i \in 1..Len(mods) |-> mods[i].val]),
                 line |-> pos.line,
                 column |-> pos.column])

\* NamedTypeMixin.__init__(module, parent, name, data_type)
NamedType(cls, module, parent, name, data_type) ==
    NamedTypeOf(cls, module, parent, name, data_type,
        IF data_type.type = "builtin"
        THEN DataType_parse(data_type.name)
        ELSE Ok(PyStr(data_type.name)),
        [i \in 1..Len(data_type.modifiers) |->
            Modifier_parse(data_type.modifiers[i])])

type_name(nt) == nt.data_type.val

\* None unless the data type is a DataType member
as_datatype(nt) ==
    IF nt.data_type.cls = "DataType" THEN nt.data_type ELSE NoneV

----------------------------------------------------------------------------
(* Function, Record, Enumeration, Module and parse                         *)

\* a Module reference that is None
NoModule == <<>>

\* mutant: the pairs taken from the end of the list
zip_pairs_reversed(flat) ==
    [i \in 1..(Len(flat) \div 2) |->
        <<flat[Len(flat) - 2 * i + 1], flat[Len(flat) - 2 * i + 2]>>]

\* zip(flat[::2], flat[1::2])
zip_pairs(flat) ==
    [i \in 1..(Len(flat) \div 2) |-> <<flat[2 * i - 1], flat[2 * i]>>]

\* {sym[0]: cls(module, self, *sym) for sym in zip(flat[::2], flat[1::2])}
dict_of_built(syms, built) ==
    LET bad == {i \in 1..Len(built) : built[i].raised}
    IN  IF bad # {}
        THEN Raise(built[CHOOSE i \in bad : \A j \in bad : i <= j].err)
        ELSE Ok(DictOf([i \in 1..Len(built) |->
                           [key |-> syms[i][1], value |-> built[i].val]]))

named_types(cls, module, parent, flat) ==
    dict_of_built(zip_pairs(flat),
        [i \in 1..(Len(flat) \div 2) |->
            NamedType(cls, module, parent, flat[2 * i - 1], flat[2 * i])])

\* the Function object, arguments and rets being the outcomes of building
\* the two dicts
FunctionOf(self, module, name, doc_string, arguments, rets) ==
    IF arguments.raised THEN Raise(arguments.err)
    ELSE IF rets.raised THEN Raise(rets.err)
    ELSE Ok([node |-> "function", id |-> self, parent_module |-> module,
             name |-> name, doc_string |-> doc_string,
             arguments |-> arguments.val, return_values |-> rets.val])

\* Function.__init__(module, name, doc_string, args, return_values)
Function(self, module, name, doc_string, args, return_values) ==
    FunctionOf(self, module, name, doc_string,
        named_types("FunctionArgument", module, self, args),
        named_types("FunctionReturnValue", module, self, return_values))

\* the Record object, built being the outcome of building the dict
RecordOf(self, module, name, doc_string, built) ==
    IF built.raised THEN Raise(built.err)
    ELSE Ok([node |-> "record", id |-> self, parent_module |-> module,
             name |-> name, doc_string |-> doc_string,
             fields |-> built.val])

\* Record.__init__(module, name, doc_string, fields)
Record(self, module, name, doc_string, fields) ==
    RecordOf(self, module, name, doc_string,
        named_types("Field", module, self, fields))

\* Enumeration.__init__(module, name, doc_string, variants)
Enumeration(self, module, name, doc_string, variants) ==
    Ok([node |-> "enumeration", id |-> self, parent_module |-> module,
        name |-> name, doc_string |-> doc_string, variants |-> variants])

\* {m.name: m for m in members if isinstance(m, kind)}
members_of_kind(members, kind) ==
    LET idx == {i \in 1..Len(members) : members[i].node = kind}
        RECURSIVE upto(_)
        upto(n) ==
            IF n = 0 THEN <<>>
            ELSE IF n \in idx
            THEN DictSet(upto(n - 1), members[n].name, members[n])
            ELSE upto(n - 1)
    IN  upto(Len(members))

RECURSIVE parse(_, _, _)
\* parse(root, module): PARSERS[root[0]](module, *root[1:]); self is the
\* identity of the node being built
parse(root, module, self) ==
    IF root[1] = "fun"
    THEN Function(self, module, root[2], root[3], root[4], root[5])
    ELSE IF root[1] = "rec"
    THEN Record(self, module, root[2], root[3], root[4])
    ELSE IF root[1] = "enu"
    THEN Enumeration(self, module, root[2], root[3], root[4])
    ELSE \* "mod": Module.__init__(module, name, doc_string, members)
         LET built == [i \in 1..Len(root[4]) |->
                          parse(root[4][i], self, Append(self, i))]
             bad == {i \in 1..Len(built) : built[i].raised}
             members == [i \in 1..Len(built) |-> built[i].val]
         IN  IF bad # {}
             THEN Raise(built[CHOOSE i \in bad : \A j \in bad : i <= j].err)
             ELSE Ok([node |-> "module", id |-> self,
                      parent_module |-> module,
                      name |-> root[2], doc_string |-> root[3],
                      members |-> members,
                      functions |-> members_of_kind(members, "function"),
                      records |-> members_of_kind(members, "record"),
                      enums |-> members_of_kind(members, "enumeration")])

\* dict.get(name, default) on the three maps of a module
Module_function(module, name, default) ==
    IF DictHas(module.functions, name) THEN DictAt(module.functions, name)
    ELSE default

\* mutant: records looked up in the map of enumerations
Module_record_in_enums(module, name, default) ==
    IF DictHas(module.enums, name) THEN DictAt(module.enums, name)
    ELSE default

Module_record(module, name, default) ==
    IF DictHas(module.records, name) THEN DictAt(module.records, name)
    ELSE default

Module_enum(module, name, default) ==
    IF DictHas(module.enums, name) THEN DictAt(module.enums, name)
    ELSE default

\* mutant: every reference leads to the first root module
deref_first_root(roots, ref) == roots[1]

\* mutant: a reference leads to the root module that encloses the module
deref_enclosing_root(roots, ref) == roots[ref[1]]

RECURSIVE deref(_, _)
\* the Module object a reference leads to, from the list of root modules
deref(roots, ref) ==
    IF Len(ref) = 1 THEN roots[ref[1]]
    ELSE deref(roots, SubSeq(ref, 1, Len(ref) - 1)).members[ref[Len(ref)]]

\* bool(x) of an object with neither __bool__ nor __len__, or of None
truthy(x) == x # NoneV

\* isinstance(data_type, str) and parent_module.record(data_type)
is_record(roots, nt) ==
    /\ nt.data_type.cls = "str"
    /\ truthy(Module_record(deref(roots, nt.parent_module),
                            nt.data_type.val, NoneV))

\* isinstance(data_type, str) and parent_module.enum(data_type)
is_enum(roots, nt) ==
    /\ nt.data_type.cls = "str"
    /\ truthy(Module_enum(deref(roots, nt.parent_module),
                          nt.data_type.val, NoneV))

is_simple_type(nt) == nt.data_type.cls = "DataType"

\* the exception both resolution methods raise
undefined_data_type(nt) ==
    TurboSyntaxError(<<"Undefined data type '">> \o nt.data_type.val \o <<"'">>,
                     nt.line, nt.column)

as_record(roots, nt) ==
    IF nt.data_type.cls = "str"
    THEN LET rec == Module_record(deref(roots, nt.parent_module),
                                  nt.data_type.val, NoneV)
         IN  IF ~ truthy(rec) THEN Raise(undefined_data_type(nt))
             ELSE Ok(rec)
    ELSE Ok(NoneV)

as_enum(roots, nt) ==
    IF nt.data_type.cls = "str"
    THEN LET enu == Module_enum(deref(roots, nt.parent_module),
                                nt.data_type.val, NoneV)
         IN  IF ~ truthy(enu) THEN Raise(undefined_data_type(nt))
             ELSE Ok(enu)
    ELSE Ok(NoneV)

----------------------------------------------------------------------------
(* lex: the token trees of the explored schemas.  A schema is               *)
(*     (mod m  <members>)                                                   *)
(* written one member per line, each line indented by four blanks:          *)
(*     (rec a (:x T1 :n-y T2 ...))     the values under test as fields      *)
(*     (fun f () (:v T1 :type T2 ...)) the same values as return values     *)
(*     (fun g () (:r a))               record a returned, so flattened      *)
(*     (rec b (:p bool :q (list int)))                                      *)
(*     (enu e (:one :two))                                                  *)
(* with b and e declared after their uses, before them, or b twice.         *)

s_list == <<"l","i","s","t">>
s_ref == <<"r","e","f">>

FieldNames == << <<"x">>, <<"n","-","y">>, <<"z">>, <<"k">>, <<"j">> >>
RetNames == << <<"v">>, <<"t","y","p","e">>, <<"w">>, <<"u","-","v">>, <<"o">> >>

\* a written type: its name and the modifier keywords before it
Written(name, mods) == [name |-> name, mods |-> mods]

\* the written types explored in every position of up to MaxVals values
PlanTypes ==
    { Written(s_int, <<>>), Written(s_float, <<>>), Written(s_bool, <<>>),
      Written(s_string, <<>>), Written(s_bytes, <<>>),
      Written(<<"b">>, <<>>), Written(<<"e">>, <<>>),
      Written(<<"b">>, <<s_list>>) }

\* the written types explored as a single value: every modifier list on
\* every builtin, a record, an enum and an undefined name
AllTypes ==
    { Written(n, m) :
        n \in DataTypeValues \cup { <<"b">>, <<"e">>, <<"u">> },
        m \in { <<>>, <<s_list>>, <<s_ref>>, <<s_ref, s_list>>,
                <<s_list, s_ref>> } }

RECURSIVE SeqsUpTo(_, _)
\* the sequences over S of length at most n
SeqsUpTo(S, n) ==
    IF n = 0 THEN { <<>> }
    ELSE LET shorter == SeqsUpTo(S, n - 1)
         IN  shorter \cup { Append(s, x) : s \in shorter, x \in S }

RECURSIVE SumLen(_)
SumLen(strs) == IF strs = <<>> THEN 0 ELSE Len(strs[1]) + 1 + SumLen(Tail(strs))

\* number of characters of a written type: T or (mod ... T)
WrittenLen(w) ==
    IF w.mods = <<>> THEN Len(w.name) ELSE 1 + SumLen(w.mods) + Len(w.name) + 1

\* _parse_builtin_type / _parse_record_or_enum / _parse_modifiers: the dict
\* of a data type whose text starts at (line, col); the position is that of
\* the type name token
lex_data_type(w, line, col) ==
    [name |-> w.name,
     type |-> IF w.name \in DataTypeValues THEN "builtin" ELSE "record-or-enum",
     line |-> line,
     column |-> IF w.mods = <<>> THEN col ELSE col + 1 + SumLen(w.mods),
     modifiers |-> w.mods]

RECURSIVE lex_arg_list(_, _, _, _)
\* the flat list  name, type, name, type ...  of  :name T :name T ...
\* whose first ":" stands at (line, col)
lex_arg_list(names, written, line, col) ==
    IF written = <<>> THEN <<>>
    ELSE << names[1], lex_data_type(written[1], line, col + 1 + Len(names[1]) + 1) >>
         \o lex_arg_list(Tail(names), Tail(written), line,
                         col + 1 + Len(names[1]) + 1 + WrittenLen(written[1]) + 1)

lex_rec(name, names, written, line) ==
    << "rec", name, <<>>, lex_arg_list(names, written, line, 4 + 5 + Len(name) + 3) >>

\* a function without arguments: (fun name () (...))
lex_fun(name, names, written, line) ==
    << "fun", name, <<>>, <<>>,
       lex_arg_list(names, written, line, 4 + 5 + Len(name) + 6) >>

lex_enu(name, variants) == << "enu", name, <<>>, variants >>

rec_a(vals, line) == lex_rec(<<"a">>, SubSeq(FieldNames, 1, Len(vals)), vals, line)
fun_f(vals, line) == lex_fun(<<"f">>, SubSeq(RetNames, 1, Len(vals)), vals, line)
fun_g(line) == lex_fun(<<"g">>, << <<"r">> >>, << Written(<<"a">>, <<>>) >>, line)
rec_b(line) ==
    lex_rec(<<"b">>, << <<"p">>, <<"q">> >>,
            << Written(s_bool, <<>>), Written(s_int, <<s_list>>) >>, line)
rec_b_shadowed(line) ==
    lex_rec(<<"b">>, << <<"p">> >>, << Written(s_int, <<>>) >>, line)
enu_e == lex_enu(<<"e">>, << <<"o","n","e">>, <<"t","w","o">> >>)

Orders == {"after", "before", "twice"}

lex(vals, order) ==
    << << "mod", <<"m">>, <<>>,
          IF order = "after"
          THEN << rec_a(vals, 2), fun_f(vals, 3), fun_g(4), rec_b(5), enu_e >>
          ELSE IF order = "before"
          THEN << enu_e, rec_b(3), rec_a(vals, 4), fun_f(vals, 5), fun_g(6) >>
          ELSE << rec_b_shadowed(2), rec_a(vals, 3), fun_f(vals, 4), fun_g(5),
                  rec_b(6), enu_e >> >> >>

Schemas ==
    { lex(vals, "after") : vals \in SeqsUpTo(PlanTypes, MaxVals) }
    \cup { lex(<<w>>, order) : w \in AllTypes, order \in Orders }

----------------------------------------------------------------------------
(* ReturnValueWriter                                                       *)

\* Types.abi_size_type, the class attribute the planner reads
abi_size_type == <<"i64">>

WriteOp(target, source, rust_type) ==
    [target |-> target, source |-> source, rust_type |-> rust_type]

\* item_type is a str, a Record or an Enumeration
AllocOp(write_op, item_type) == [write_op |-> write_op, item_type |-> item_type]
StrItem(s) == [kind |-> "str", str |-> s, node |-> NoneV]
NodeItem(n) == [kind |-> "node", str |-> <<>>, node |-> n]

\* the number of writers that can be under construction at once before the
\* interpreter's call stack is used up
RecursionLimit == 4

\* what the interpreter raises, in place of the call, when the stack is used up
RecursionError ==
    [type |-> "RecursionError",
     message |-> <<"maximum recursion depth exceeded">>,
     lineno |-> 0, column |-> 0]

\* the four callables __init__ hands to _create_ops, as data; depth counts
\* the writers under construction on the call stack, this one included
FunctionClosure(multi_rets) ==
    [kind |-> "function", multi_rets |-> multi_rets,
     argument_name |-> <<>>, fields |-> <<>>, depth |-> 1]
RecordClosure(argument_name, target_, depth) ==
    [kind |-> "record", multi_rets |-> FALSE,
     argument_name |-> argument_name, fields |-> DictValues(target_.fields),
     depth |-> depth]

size_of(type) == <<"std::mem::size_of::<">> \o type \o <<">()">>

\* what one preceding sibling adds to the offset (the body of the loop of
\* _field_target), with Types.abi_types as it is now
sibling_size(roots, tbl, rec_field) ==
    IF is_list(rec_field) \/ as_datatype(rec_field) = DataType(s_string)
    THEN Ok(<<"2 * ">> \o size_of(abi_size_type))
    ELSE IF is_record(roots, rec_field)
    THEN Ok(upper(to_safe_snakecase(type_name(rec_field))))
    ELSE IF DictHas(tbl, PyStr(type_name(rec_field)))
    THEN Ok(size_of(DictAt(tbl, PyStr(type_name(rec_field)))))
    ELSE Raise(KeyError(type_name(rec_field)))

\* size_ops.append(...) of one pass of the loop, before the later passes
size_ops_append(this, rest) ==
    IF this.raised THEN this
    ELSE IF rest.raised THEN rest
    ELSE Ok(<<this.val>> \o rest.val)

RECURSIVE size_ops_from(_, _, _, _, _)
\* the addends for fields[i], fields[i+1] ... up to, not including, field
size_ops_from(roots, tbl, fields, field, i) ==
    IF i > Len(fields) \/ fields[i] = field THEN Ok(<<>>)
    ELSE size_ops_append(sibling_size(roots, tbl, fields[i]),
                         size_ops_from(roots, tbl, fields, field, i + 1))

\* " + ".join(size_ops), size_ops being the slot name and the addends
join_size_ops(cl, addends) ==
    IF addends.raised THEN addends
    ELSE Ok(Join(<<" + ">>,
                 << to_safe_snakecase(cl.argument_name) \o <<"_out">> >>
                 \o addends.val))

\* _field_target(field) of the record branch of __init__
field_target(roots, tbl, cl, field) ==
    join_size_ops(cl, size_ops_from(roots, tbl, cl.fields, field, 1))

\* f"{t} + std::mem::size_of::<{Types.abi_size_type}>()"
plus_size_type(t) ==
    IF t.raised THEN t
    ELSE Ok(t.val \o <<" + ">> \o size_of(abi_size_type))

\* mutant: the length slot put where the pointer slot is
field_target_len_no_offset(roots, tbl, cl, field) ==
    field_target(roots, tbl, cl, field)

\* _field_target_len(field)
field_target_len(roots, tbl, cl, field) ==
    plus_size_type(field_target(roots, tbl, cl, field))

source_fn(cl, rv) ==
    IF cl.kind = "function"
    THEN IF cl.multi_rets THEN to_safe_snakecase(rv.name) ELSE <<>>
    ELSE to_safe_snakecase(rv.name)

source_len_fn(cl, rv) ==
    IF cl.kind = "function"
    THEN (IF cl.multi_rets THEN to_safe_snakecase(rv.name) ELSE <<>>)
         \o <<".", "len()">>
    ELSE to_safe_snakecase(rv.name) \o <<".", "len()">>

target_fn(roots, tbl, cl, rv) ==
    IF cl.kind = "function"
    THEN Ok(to_safe_snakecase(rv.name) \o <<"_out">>)
    ELSE field_target(roots, tbl, cl, rv)

target_len_fn(roots, tbl, cl, rv) ==
    IF cl.kind = "function"
    THEN Ok(to_safe_snakecase(rv.name) \o <<"_out_len">>)
    ELSE field_target_len(roots, tbl, cl, rv)

\* mutant: the entry of the value's own type name is overwritten
list_types_key_type_name(rv) == PyStr(type_name(rv))

\* the key of  list_types[ast.DataType.STRING] = "u8"
list_types_key(rv) == DataType(s_string)

\* list_types = Types.abi_types; list_types[...] = "u8": the table after
\* the assignment through the alias
list_types_of(tbl, rv) == DictSet(tbl, list_types_key(rv), <<"u8">>)

\* mutant: the record test made before the list test
case_of_record_first(roots, rv) ==
    IF is_record(roots, rv) THEN "record"
    ELSE IF is_list(rv) \/ as_datatype(rv) = DataType(s_string) THEN "list"
    ELSE IF is_enum(roots, rv) \/ as_datatype(rv) = DataType(s_bool) THEN "u8"
    ELSE "scalar"

\* the branch _create_ops takes for a value
case_of(roots, rv) ==
    IF is_list(rv) \/ as_datatype(rv) = DataType(s_string) THEN "list"
    ELSE IF is_record(roots, rv) THEN "record"
    ELSE IF is_enum(roots, rv) \/ as_datatype(rv) = DataType(s_bool) THEN "u8"
    ELSE "scalar"

\* the result of a plan under construction
PlanAcc(tbl, write_ops, alloc_ops) ==
    [raised |-> FALSE, err |-> NoErr, tbl |-> tbl,
     write_ops |-> write_ops, alloc_ops |-> alloc_ops]
PlanRaise(acc, tbl, err) ==
    [raised |-> TRUE, err |-> err, tbl |-> tbl,
     write_ops |-> acc.write_ops, alloc_ops |-> acc.alloc_ops]

\* mutant: new ops put at the front of the list
extend_ops_front(ops, new) == new \o ops

\* alloc_ops.append / extend and write_ops.append / extend
extend_ops(ops, new) == ops \o new

\* item_type of a list or string value, list_types being the aliased table
item_type_of(roots, list_types, rv) ==
    IF is_record(roots, rv) THEN Ok(NodeItem(as_record(roots, rv).val))
    ELSE IF is_enum(roots, rv) THEN Ok(NodeItem(as_enum(roots, rv).val))
    ELSE IF DictHas(list_types, PyStr(type_name(rv)))
    THEN Ok(StrItem(DictAt(list_types, PyStr(type_name(rv)))))
    ELSE Raise(KeyError(type_name(rv)))

\* alloc_ops.append(AllocOp(...)); write_ops.append(WriteOp(...)), the
\* arguments evaluated in the order item_type, target, target_len
list_ops(acc, cl, rv, list_types, item_type, target, target_len) ==
    IF item_type.raised THEN PlanRaise(acc, list_types, item_type.err)
    ELSE IF target.raised THEN PlanRaise(acc, list_types, target.err)
    ELSE IF target_len.raised THEN PlanRaise(acc, list_types, target_len.err)
    ELSE PlanAcc(list_types,
                 extend_ops(acc.write_ops,
                     << WriteOp(target_len.val, source_len_fn(cl, rv),
                                abi_size_type) >>),
                 extend_ops(acc.alloc_ops,
                     << AllocOp(WriteOp(target.val, source_fn(cl, rv),
                                        abi_size_type),
                                item_type.val) >>))

\* the first branch after the assignment through the alias
list_step_with(roots, acc, cl, rv, list_types) ==
    list_ops(acc, cl, rv, list_types,
             item_type_of(roots, list_types, rv),
             target_fn(roots, list_types, cl, rv),
             target_len_fn(roots, list_types, cl, rv))

\* the first branch of the loop body: a list or a bare string
list_step(roots, acc, cl, rv) ==
    list_step_with(roots, acc, cl, rv, list_types_of(acc.tbl, rv))

\* write_ops.append(WriteOp(target, source, rust_type))
write_op_append(acc, cl, rv, target, rust_type) ==
    IF target.raised THEN PlanRaise(acc, acc.tbl, target.err)
    ELSE IF rust_type.raised THEN PlanRaise(acc, acc.tbl, rust_type.err)
    ELSE PlanAcc(acc.tbl,
                 extend_ops(acc.write_ops,
                     << WriteOp(target.val, source_fn(cl, rv),
                                rust_type.val) >>),
                 acc.alloc_ops)

\* the third and fourth branch: one WriteOp of the given width
write_step(roots, acc, cl, rv, rust_type) ==
    write_op_append(acc, cl, rv, target_fn(roots, acc.tbl, cl, rv), rust_type)

RECURSIVE create_ops_from(_, _, _, _, _)
\* _create_ops(args, source_fn, source_len_fn, target_fn, target_len_fn):
\* the loop from args[i] on, acc holding the two lists built so far and
\* Types.abi_types as it is now
create_ops_from(roots, acc, cl, args, i) ==
    IF acc.raised \/ i > Len(args) THEN acc
    ELSE LET rv == args[i]
             branch == case_of(roots, rv)
             next ==
               IF branch = "list" THEN list_step(roots, acc, cl, rv)
               ELSE IF branch = "record"
               THEN \* rec_writer = ReturnValueWriter((rv.name, rv.as_record()))
                    LET target_ == as_record(roots, rv).val
                        rec_writer ==
                            IF cl.depth >= RecursionLimit
                            THEN PlanRaise(PlanAcc(acc.tbl, <<>>, <<>>),
                                           acc.tbl, RecursionError)
                            ELSE create_ops_from(roots,
                                     PlanAcc(acc.tbl, <<>>, <<>>),
                                     RecordClosure(rv.name, target_,
                                                   cl.depth + 1),
                                     DictValues(target_.fields), 1)
                    IN  IF rec_writer.raised
                        THEN PlanRaise(acc, rec_writer.tbl, rec_writer.err)
                        ELSE PlanAcc(rec_writer.tbl,
                                 extend_ops(acc.write_ops, rec_writer.write_ops),
                                 extend_ops(acc.alloc_ops, rec_writer.alloc_ops))
               ELSE IF branch = "u8"
               THEN write_step(roots, acc, cl, rv, Ok(<<"u8">>))
               ELSE write_step(roots, acc, cl, rv,
                        IF DictHas(acc.tbl, PyStr(type_name(rv)))
                        THEN Ok(DictAt(acc.tbl, PyStr(type_name(rv))))
                        ELSE Raise(KeyError(type_name(rv))))
         IN  create_ops_from(roots, next, cl, args, i + 1)

\* ReturnValueWriter(function): the function branch of __init__
ReturnValueWriter(roots, tbl, function) ==
    create_ops_from(roots, PlanAcc(tbl, <<>>, <<>>),
        FunctionClosure(Len(function.return_values) > 1),
        DictValues(function.return_values), 1)

----------------------------------------------------------------------------
(* state                                                                   *)

\* Types.abi_types as the class body sets it; "string" maps to abi_size_type
\* as the class attribute has it when the body runs
abi_types_initial ==
    << [key |-> PyStr(s_int), value |-> <<"i64">>],
       [key |-> PyStr(s_float), value |-> <<"f64">>],
       [key |-> PyStr(s_bool), value |-> <<"u8">>],
       [key |-> PyStr(s_string), value |-> abi_size_type],
       [key |-> PyStr(s_bytes), value |-> <<"u8">>] >>

NoCall == [method |-> "none", node |-> NoneV, result |-> Ok(NoneV)]

Init ==
    /\ tokens \in Schemas
    /\ modules = <<>>
    /\ abi_types = abi_types_initial
    /\ writers = <<>>
    /\ first_ops = <<>>
    /\ last = NoCall

\* the state after the map, built holding the outcome of parse for each root
Parsed(built) ==
    LET bad == {i \in 1..Len(built) : built[i].raised}
    IN  IF bad = {}
        THEN /\ modules' = [i \in 1..Len(built) |-> built[i].val]
             /\ last' = last
        ELSE /\ modules' = modules
             /\ last' = [method |-> "parse", node |-> NoneV,
                         result |-> built[CHOOSE i \in bad : TRUE]]

\* main: ast = map(parse, lex(text)); a TurboSyntaxError ends the run
Parse ==
    /\ modules = <<>>
    /\ last.method = "none"
    /\ Parsed([i \in 1..Len(tokens) |-> parse(tokens[i], NoModule, <<i>>)])
    /\ UNCHANGED <<tokens, abi_types, writers, first_ops>>

\* the values of a dict as a set
Range(f) == {f[i] : i \in DOMAIN f}

\* every Field, FunctionArgument and FunctionReturnValue of a module's
\* direct members
NamedTypesOf(module) ==
    UNION { Range(DictValues(r.fields)) : r \in Range(DictValues(module.records)) }
    \cup UNION { Range(DictValues(f.arguments)) \cup Range(DictValues(f.return_values)) :
                 f \in Range(DictValues(module.functions)) }

\* a caller resolves the type of a node
Resolve ==
    /\ modules # <<>>
    /\ \E m \in Range(modules) : \E nt \in NamedTypesOf(m) :
         \E method \in {"as_record", "as_enum"} :
            last' = [method |-> method, node |-> nt,
                     result |-> IF method = "as_record"
                                THEN as_record(modules, nt)
                                ELSE as_enum(modules, nt)]
    /\ UNCHANGED <<tokens, modules, abi_types, writers, first_ops>>

\* the plan a writer holds, or the exception its construction raised
Built(w) ==
    [raised |-> w.raised, err |-> w.err,
     write_ops |-> IF w.raised THEN <<>> ELSE w.write_ops,
     alloc_ops |-> IF w.raised THEN <<>> ELSE w.alloc_ops]

\* first_ops after function id was planned with outcome w: the first
\* outcome is kept, a later build only marks the function as rebuilt
remember_first(firsts, id, w) ==
    IF DictHas(firsts, id)
    THEN DictSet(firsts, id, [plan |-> DictAt(firsts, id).plan, rebuilt |-> TRUE])
    ELSE DictSet(firsts, id, [plan |-> Built(w), rebuilt |-> FALSE])

\* Types.abi_types and the writers held by the functions, as they are now
Attached ==
    [tbl |-> abi_types, writers |-> writers, firsts |-> first_ops,
     raised |-> FALSE]

\* mutant: the writer is set on the module the function is a member of
attach_to_parent_module(st, function, w) ==
    [tbl |-> w.tbl,
     writers |-> DictSet(st.writers, function.parent_module, Built(w)),
     firsts |-> remember_first(st.firsts, function.id, w),
     raised |-> w.raised]

\* function.return_value_writer = w, w being the outcome of
\* ReturnValueWriter(function)
attach(st, function, w) ==
    [tbl |-> w.tbl,
     writers |-> DictSet(st.writers, function.id, Built(w)),
     firsts |-> remember_first(st.firsts, function.id, w),
     raised |-> w.raised]

\* the state after the statements that led to st
Store(st) ==
    /\ abi_types' = st.tbl
    /\ writers' = st.writers
    /\ first_ops' = st.firsts

\* ReturnValueWriter(fun) for one function
PlanFunction ==
    /\ modules # <<>>
    /\ \E m \in Range(modules) : \E fun \in Range(DictValues(m.functions)) :
         Store(attach(Attached, fun, ReturnValueWriter(modules, abi_types, fun)))
    /\ UNCHANGED <<tokens, modules, last>>

RECURSIVE attach_from(_, _, _, _)
\* attach_return_value_writers(functions): the loop from functions[i] on; an
\* exception ends it
attach_from(roots, st, functions, i) ==
    IF st.raised \/ i > Len(functions) THEN st
    ELSE attach_from(roots,
             attach(st, functions[i],
                    ReturnValueWriter(roots, st.tbl, functions[i])),
             functions, i + 1)

\* RustWasmtime.generate(module): attach_return_value_writers(module.functions)
Generate ==
    /\ modules # <<>>
    /\ \E m \in Range(modules) :
         Store(attach_from(modules, Attached, DictValues(m.functions), 1))
    /\ UNCHANGED <<tokens, modules, last>>

NextResolve == Parse \/ Resolve

\* parsing and type resolution
SpecResolve == Init /\ [][NextResolve]_vars

NextPlan == Parse \/ PlanFunction \/ Generate

\* parsing and planning
SpecPlan == Init /\ [][NextPlan]_vars

Next == Parse \/ Resolve \/ PlanFunction \/ Generate

Spec == Init /\ [][Next]_vars

----------------------------------------------------------------------------
(* Module and Function queries, and the schemas that exercise the shape of *)
(* the tree: a root module m whose members are drawn, in any order and     *)
(* with repetition, from                                                   *)
(*     (fun f (:x int :n-y (list b)) (:v string :type e))                   *)
(*     (fun f () ())                                                        *)
(*     (fun h (:x (ref bytes)) (:v int))                                    *)
(*     (rec b (:p bool))                                                    *)
(*     (rec b (:p int :q string))                                           *)
(*     (enu b (one))                                                        *)
(*     (mod n)                                                              *)
(*     (mod k (rec b (:p bool)) (fun h (:x (ref bytes)) (:v int)))          *)

\* mutant: a module is a root when it has a parent
is_root_module_nested(module) == module.parent_module # NoModule

\* Module.is_root_module: parent_module is None
is_root_module(module) == module.parent_module = NoModule

is_multi_return(function) == Len(function.return_values) > 1

has_return_values(function) == Len(function.return_values) > 0

num_returns(function) == Len(function.return_values)

num_arguments(function) == Len(function.arguments)

\* next(iter(self.return_values.values()), None)
get_first_return_value(function) ==
    IF function.return_values = <<>> THEN NoneV
    ELSE function.return_values[1].value

\* the largest number of members of the root module
MaxMembers == 3

MemberKinds ==
    { "fun f", "fun f none", "fun h", "rec b", "rec b wide", "enu b",
      "mod n", "mod k" }

\* the number of lines a member is written on
LinesOf(kind) == IF kind = "mod k" THEN 4 ELSE 1

RECURSIVE ArgListLen(_, _)
\* number of characters of  :name T :name T ...  each item followed by a blank
ArgListLen(names, written) ==
    IF written = <<>> THEN 0
    ELSE 1 + Len(names[1]) + 1 + WrittenLen(written[1]) + 1
         + ArgListLen(Tail(names), Tail(written))

\* (fun name (args) (rets)) written on one line after four blanks; the last
\* argument is followed by ")" and not by a blank
lex_fun_args(name, arg_names, arg_types, ret_names, ret_types, line) ==
    << "fun", name, <<>>,
       lex_arg_list(arg_names, arg_types, line, 4 + 5 + Len(name) + 3),
       lex_arg_list(ret_names, ret_types, line,
           4 + 5 + Len(name) + 3 + 3
           + (IF arg_types = <<>> THEN 0
              ELSE ArgListLen(arg_names, arg_types) - 1)) >>

fun_h(line) ==
    lex_fun_args(<<"h">>, << <<"x">> >>, << Written(s_bytes, <<s_ref>>) >>,
                 << <<"v">> >>, << Written(s_int, <<>>) >>, line)

rec_b_narrow(line) ==
    lex_rec(<<"b">>, << <<"p">> >>, << Written(s_bool, <<>>) >>, line)

\* the token tree of one member written from the given line on
lex_member(kind, line) ==
    CASE kind = "fun f" ->
           lex_fun_args(<<"f">>, << <<"x">>, <<"n","-","y">> >>,
               << Written(s_int, <<>>), Written(<<"b">>, <<s_list>>) >>,
               << <<"v">>, <<"t","y","p","e">> >>,
               << Written(s_string, <<>>), Written(<<"e">>, <<>>) >>, line)
      [] kind = "fun f none" ->
           lex_fun_args(<<"f">>, <<>>, <<>>, <<>>, <<>>, line)
      [] kind = "fun h" -> fun_h(line)
      [] kind = "rec b" -> rec_b_narrow(line)
      [] kind = "rec b wide" ->
           lex_rec(<<"b">>, << <<"p">>, <<"q">> >>,
               << Written(s_int, <<>>), Written(s_string, <<>>) >>, line)
      [] kind = "enu b" -> lex_enu(<<"b">>, << <<"o","n","e">> >>)
      [] kind = "mod n" -> << "mod", <<"n">>, <<>>, <<>> >>
      [] OTHER ->
           << "mod", <<"k">>, <<>>,
              << rec_b_narrow(line + 1), fun_h(line + 2) >> >>

RECURSIVE lex_members(_, _)
lex_members(kinds, line) ==
    IF kinds = <<>> THEN <<>>
    ELSE << lex_member(kinds[1], line) >>
         \o lex_members(Tail(kinds), line + LinesOf(kinds[1]))

\* lex of the text  (mod m <members>)
lex_tree(kinds) == << << "mod", <<"m">>, <<>>, lex_members(kinds, 2) >> >>

TreeSchemas == { lex_tree(kinds) : kinds \in SeqsUpTo(MemberKinds, MaxMembers) }

InitTree ==
    /\ tokens \in TreeSchemas
    /\ modules = <<>>
    /\ abi_types = abi_types_initial
    /\ writers = <<>>
    /\ first_ops = <<>>
    /\ last = NoCall

RECURSIVE modules_under(_)
\* a module and the modules nested in it
modules_under(module) ==
    {module} \cup
    UNION { modules_under(module.members[i]) :
              i \in { j \in 1..Len(module.members) :
                        module.members[j].node = "module" } }

AllModules == UNION { modules_under(m) : m \in Range(modules) }

\* a caller asks a function for its derived facts
InspectFunction ==
    /\ modules # <<>>
    /\ \E m \in AllModules : \E fn \in Range(DictValues(m.functions)) :
         last' = [method |-> "function", node |-> fn,
                  result |-> Ok([num_arguments |-> num_arguments(fn),
                                 num_returns |-> num_returns(fn),
                                 has_return_values |-> has_return_values(fn),
                                 is_multi_return |-> is_multi_return(fn),
                                 get_first_return_value |->
                                     get_first_return_value(fn)])]
    /\ UNCHANGED <<tokens, modules, abi_types, writers, first_ops>>

\* a caller asks a module whether it is a root
InspectModule ==
    /\ modules # <<>>
    /\ \E m \in AllModules :
         last' = [method |-> "is_root_module", node |-> m,
                  result |-> Ok([is_root_module |-> is_root_module(m)])]
    /\ UNCHANGED <<tokens, modules, abi_types, writers, first_ops>>

NextTree == Parse \/ InspectFunction \/ InspectModule

SpecTree == InitTree /\ [][NextTree]_vars

----------------------------------------------------------------------------
(* Lifetime and Types: the type mapper                                     *)

TurboException(message) ==
    [type |-> "TurboException", message |-> message, lineno |-> 0, column |-> 0]

LowerChar(c) ==
    IF \E i \in 1..26 : UpperLetters[i] = c
    THEN LowerLetters[CHOOSE i \in 1..26 : UpperLetters[i] = c]
    ELSE c

IsCased(c) == \E i \in 1..26 : LowerLetters[i] = c \/ UpperLetters[i] = c

\* str.title(): a letter after a letter is lowered, any other letter raised
title(s) ==
    [i \in 1..Len(s) |->
        IF i > 1 /\ IsCased(s[i - 1]) THEN LowerChar(s[i]) ELSE UpperChar(s[i])]

RECURSIVE split(_, _, _)
\* s.split(sep), word being the part read so far
split(s, sep, word) ==
    IF s = <<>> THEN <<word>>
    ELSE IF s[1] = sep THEN <<word>> \o split(Tail(s), sep, <<>>)
    ELSE split(Tail(s), sep, Append(word, s[1]))

\* mutant: the parts joined as they are written
to_camelcase_untitled(kebab) == Join(<<>>, split(kebab, "-", <<>>))

\* "".join(map(str.title, kebab.split("-")))
to_camelcase(kebab) ==
    Join(<<>>, [i \in 1..Len(split(kebab, "-", <<>>)) |->
                   title(split(kebab, "-", <<>>)[i])])

RECURSIVE Format(_, _)
\* fmt % arg, for a format with "%s" pieces
Format(fmt, arg) ==
    IF fmt = <<>> THEN <<>>
    ELSE (IF fmt[1] = "%s" THEN arg ELSE <<fmt[1]>>) \o Format(Tail(fmt), arg)

\* the default of the parameter fmt of Lifetime.struct
DefaultFmt == <<"<", "%s", ">">>

\* mutant: a lifetime is declared when some field is a list
Lifetime_struct_for_lists(fields, lifetime_name, fmt) ==
    IF \E i \in 1..Len(fields) : is_list(fields[i].value)
    THEN Format(fmt, <<"'">> \o lifetime_name)
    ELSE <<>>

\* Lifetime.struct(fields, lifetime_name, fmt)
Lifetime_struct(fields, lifetime_name, fmt) ==
    IF \E i \in 1..Len(fields) : is_reference(fields[i].value)
    THEN Format(fmt, <<"'">> \o lifetime_name)
    ELSE <<>>

rust_types ==
    << [key |-> PyStr(s_int), value |-> <<"i64">>],
       [key |-> PyStr(s_float), value |-> <<"f64">>],
       [key |-> PyStr(s_bool), value |-> <<"bool">>],
       [key |-> PyStr(s_string), value |-> <<"String">>],
       [key |-> PyStr(s_bytes), value |-> <<"u8">>] >>

rust_ref_types ==
    << [key |-> PyStr(s_int), value |-> <<"i64">>],
       [key |-> PyStr(s_float), value |-> <<"f64">>],
       [key |-> PyStr(s_bool), value |-> <<"bool">>],
       [key |-> PyStr(s_string), value |-> <<"str">>],
       [key |-> PyStr(s_bytes), value |-> <<"u8">>] >>

\* "string" maps to the class attribute abi_size_type, whatever the instance
abi_types_in ==
    << [key |-> PyStr(s_int), value |-> <<"i64">>],
       [key |-> PyStr(s_float), value |-> <<"f64">>],
       [key |-> PyStr(s_bool), value |-> <<"i32">>],
       [key |-> PyStr(s_string), value |-> abi_size_type] >>

\* Types.__init__(lifetime, abi_size): the instance attribute abi_size_type
Types_init(abi_size) ==
    [abi_size_type |-> IF abi_size = 32 THEN <<"i32">> ELSE <<"i64">>]

\* Types._struct_name(name, fields, lifetime_name)
struct_name(name, fields, lifetime_name) ==
    to_camelcase(name) \o Lifetime_struct(fields, lifetime_name, DefaultFmt)

\* the pair (type_name, ref_type_name)
RustTypes(type_name_, ref_type_name) ==
    Ok([type_name |-> type_name_, ref_type_name |-> ref_type_name])

\* the pair (type_name, type_name)
SameRustTypes(type_name_) == RustTypes(type_name_, type_name_)

\* Types._to_rust_types(arg, lifetime_name)
to_rust_types(roots, arg, lifetime_name) ==
    IF is_record(roots, arg)
    THEN SameRustTypes(struct_name(type_name(arg),
                           as_record(roots, arg).val.fields, lifetime_name))
    ELSE IF is_enum(roots, arg)
    THEN RustTypes(to_camelcase(type_name(arg)), to_camelcase(type_name(arg)))
    ELSE IF DictHas(rust_types, PyStr(type_name(arg)))
    THEN RustTypes(DictAt(rust_types, PyStr(type_name(arg))),
                   DictAt(rust_ref_types, PyStr(type_name(arg))))
    ELSE Raise(TurboException(<<"Failed to lookup rust type: ">>
                              \o type_name(arg)))

\* mutant: only a written ref makes the input a reference
trait_input_reference_ref_only(roots, arg) == is_reference(arg)

\* the local is_reference of trait_input
trait_input_reference(roots, arg) ==
    \/ is_reference(arg)
    \/ is_list(arg)
    \/ type_name(arg) = s_string
    \/ is_record(roots, arg)

\* the declaration trait_input returns, given its two locals
trait_input_decl(arg, lifetime_name, is_reference_, names) ==
    IF names.raised THEN names
    ELSE Ok(to_safe_snakecase(arg.name) \o <<": ">>
            \o (IF is_reference_ THEN <<"&'">> \o lifetime_name ELSE <<>>)
            \o <<" ">>
            \o (IF is_list(arg)
                THEN IF is_reference_
                     THEN <<"[">> \o names.val.type_name \o <<"]">>
                     ELSE <<"Vec<">> \o names.val.type_name \o <<">">>
                ELSE IF is_reference_ THEN names.val.ref_type_name
                ELSE names.val.type_name))

\* Types.trait_input(arg, lifetime_name)
trait_input(roots, arg, lifetime_name) ==
    trait_input_decl(arg, lifetime_name, trait_input_reference(roots, arg),
                     to_rust_types(roots, arg, lifetime_name))

\* the type _single_trait_output and struct_field give a value
owned_or_borrowed(value, names) ==
    IF is_list(value)
    THEN IF is_reference(value)
         THEN <<"[">> \o names.val.type_name \o <<"]">>
         ELSE <<"Vec<">> \o names.val.type_name \o <<">">>
    ELSE IF is_reference(value) THEN names.val.ref_type_name
    ELSE names.val.type_name

single_trait_output_decl(return_value, names) ==
    IF names.raised THEN names
    ELSE Ok((IF is_reference(return_value) THEN <<"&">> ELSE <<>>)
            \o owned_or_borrowed(return_value, names))

\* Types._single_trait_output(return_value)
single_trait_output(roots, return_value) ==
    single_trait_output_decl(return_value,
                             to_rust_types(roots, return_value, <<"_">>))

\* mutant: the aggregate is named after the function alone
result_name_plain(function) == function.name

\* f"{function.name}-result"
result_name(function) == function.name \o <<"-","r","e","s","u","l","t">>

\* Types.trait_output(function)
trait_output(roots, function) ==
    IF ~ has_return_values(function) THEN Ok(<<"()">>)
    ELSE IF is_multi_return(function)
    THEN Ok(struct_name(result_name(function), function.return_values, <<"_">>))
    ELSE IF get_first_return_value(function) = NoneV
    THEN Raise(TurboException(<<"Failed to get return value for function ">>
                              \o function.name))
    ELSE single_trait_output(roots, get_first_return_value(function))

struct_field_decl(field, lifetime_name, pub, names) ==
    IF names.raised THEN names
    ELSE Ok((IF pub THEN <<"pub ">> ELSE <<>>)
            \o to_safe_snakecase(field.name) \o <<": ">>
            \o (IF is_reference(field)
                THEN <<"&'">> \o lifetime_name \o <<" ">> ELSE <<>>)
            \o owned_or_borrowed(field, names) \o <<",">>)

\* Types.struct_field(field, lifetime_name, pub)
struct_field(roots, field, lifetime_name, pub) ==
    struct_field_decl(field, lifetime_name, pub,
                      to_rust_types(roots, field, lifetime_name))

\* mutant: a list is passed as one handle
wrapper_in_decl_no_len(self, arg, type_name_) ==
    IF type_name_.raised THEN type_name_
    ELSE Ok(to_safe_snakecase(arg.name) \o <<": ">> \o type_name_.val \o <<",">>)

\* decl of wrapper_in, given the local type_name
wrapper_in_decl(self, arg, type_name_) ==
    IF type_name_.raised THEN type_name_
    ELSE Ok(to_safe_snakecase(arg.name) \o <<": ">> \o type_name_.val \o <<",">>
            \o (IF is_list(arg)
                THEN <<"\n">> \o to_safe_snakecase(arg.name)
                     \o <<"_len:", " ">> \o self.abi_size_type
                ELSE <<>>))

\* Types.wrapper_in(arg)
wrapper_in(roots, self, arg) ==
    wrapper_in_decl(self, arg,
        IF is_list(arg) THEN Ok(self.abi_size_type)
        ELSE IF is_record(roots, arg) THEN Ok(self.abi_size_type)
        ELSE IF is_enum(roots, arg) THEN Ok(<<"i32">>)
        ELSE IF DictHas(abi_types_in, PyStr(type_name(arg)))
        THEN Ok(DictAt(abi_types_in, PyStr(type_name(arg))))
        ELSE Raise(KeyError(type_name(arg))))

\* mutant: the length slot only for a written list
wrapper_out_len_for_lists(self, arg) ==
    Ok(to_safe_snakecase(arg.name) \o <<"_out: ">> \o self.abi_size_type
       \o <<",">>
       \o (IF is_list(arg)
           THEN <<"\n">> \o to_safe_snakecase(arg.name)
                \o <<"_out_len:", " ">> \o self.abi_size_type
           ELSE <<>>))

\* Types.wrapper_out(arg)
wrapper_out(self, arg) ==
    Ok(to_safe_snakecase(arg.name) \o <<"_out: ">> \o self.abi_size_type
       \o <<",">>
       \o (IF is_list(arg) \/ as_datatype(arg) = DataType(s_string)
           THEN <<"\n">> \o to_safe_snakecase(arg.name)
                \o <<"_out_len:", " ">> \o self.abi_size_type
           ELSE <<>>))

----------------------------------------------------------------------------
(* The schemas that exercise the type mapper, and its callers:             *)
(*     (mod m                                                               *)
(*         (rec b (:p bool :q (list int)))                                  *)
(*         (rec d-r (:p (ref int)))                                         *)
(*         (enu e (one two))                                                *)
(*         (rec a (:x T1 ...))                                              *)
(*         (fun get-it (:x A1 ...) (:v R1 ...)))                            *)

\* the largest number of fields and of return values
MaxRets == 2

s_d_r == <<"d","-","r">>

s_get_it == <<"g","e","t","-","i","t">>

\* every modifier list on every builtin, on two records, an enum and an
\* undefined name
MapTypes ==
    AllTypes \cup
    { Written(s_d_r, m) :
        m \in { <<>>, <<s_list>>, <<s_ref>>, <<s_ref, s_list>>,
                <<s_list, s_ref>> } }

ReturnTypes ==
    { Written(s_int, <<>>), Written(s_string, <<s_ref>>),
      Written(<<"b">>, <<s_list>>), Written(s_d_r, <<>>),
      Written(<<"e">>, <<>>), Written(<<"u">>, <<>>) }

lex_map(fields, args, rets) ==
    << << "mod", <<"m">>, <<>>,
          << rec_b(2),
             lex_rec(s_d_r, << <<"p">> >>, << Written(s_int, <<s_ref>>) >>, 3),
             enu_e,
             lex_rec(<<"a">>, SubSeq(FieldNames, 1, Len(fields)), fields, 5),
             lex_fun_args(s_get_it, SubSeq(FieldNames, 1, Len(args)), args,
                          SubSeq(RetNames, 1, Len(rets)), rets, 6) >> >> >>

\* one value of every type in every position
OneOfEach == { lex_map(<<w>>, <<w>>, <<w>>) : w \in MapTypes }

MapSchemas ==
    OneOfEach \cup
    { lex_map(vals, <<>>, vals) : vals \in SeqsUpTo(ReturnTypes, MaxRets) }

InitMap ==
    /\ tokens \in MapSchemas
    /\ modules = <<>>
    /\ abi_types = abi_types_initial
    /\ writers = <<>>
    /\ first_ops = <<>>
    /\ last = NoCall

\* the values of abi_size a caller passes: the two allowed and another
AbiSizes == {32, 64, 16}

LifetimeNames == { <<"a">>, <<"_">> }

Formats == { DefaultFmt, <<"%s", ", ">> }

\* the outcome of a call of the mapper
Called(method, node, self, lifetime_name, result) ==
    [method |-> method, node |-> node, self |-> self,
     lifetime_name |-> lifetime_name, result |-> result]

TraitInput ==
    /\ modules # <<>>
    /\ \E m \in Range(modules) : \E fun \in Range(DictValues(m.functions)) :
       \E arg \in Range(DictValues(fun.arguments)) :
       \E lifetime_name \in LifetimeNames :
         last' = Called("trait_input", arg, Types_init(64), lifetime_name,
                        trait_input(modules, arg, lifetime_name))
    /\ UNCHANGED <<tokens, modules, abi_types, writers, first_ops>>

WrapperIn ==
    /\ modules # <<>>
    /\ \E m \in Range(modules) : \E fun \in Range(DictValues(m.functions)) :
       \E arg \in Range(DictValues(fun.arguments)) :
       \E abi_size \in AbiSizes :
         last' = Called("wrapper_in", arg, Types_init(abi_size), <<>>,
                        wrapper_in(modules, Types_init(abi_size), arg))
    /\ UNCHANGED <<tokens, modules, abi_types, writers, first_ops>>

WrapperOut ==
    /\ modules # <<>>
    /\ \E m \in Range(modules) : \E fun \in Range(DictValues(m.functions)) :
       \E rv \in Range(DictValues(fun.return_values)) :
       \E abi_size \in AbiSizes :
         last' = Called("wrapper_out", rv, Types_init(abi_size), <<>>,
                        wrapper_out(Types_init(abi_size), rv))
    /\ UNCHANGED <<tokens, modules, abi_types, writers, first_ops>>

TraitOutput ==
    /\ modules # <<>>
    /\ \E m \in Range(modules) : \E fun \in Range(DictValues(m.functions)) :
         last' = Called("trait_output", fun, Types_init(64), <<"_">>,
                        trait_output(modules, fun))
    /\ UNCHANGED <<tokens, modules, abi_types, writers, first_ops>>

StructField ==
    /\ modules # <<>>
    /\ \E m \in Range(modules) : \E rec \in Range(DictValues(m.records)) :
       \E field \in Range(DictValues(rec.fields)) :
       \E lifetime_name \in LifetimeNames : \E pub \in BOOLEAN :
         last' = Called(IF pub THEN "struct_field pub" ELSE "struct_field",
                        field, Types_init(64), lifetime_name,
                        struct_field(modules, field, lifetime_name, pub))
    /\ UNCHANGED <<tokens, modules, abi_types, writers, first_ops>>

\* Lifetime.struct on the fields of a record or the return values of a
\* function
LifetimeStruct ==
    /\ modules # <<>>
    /\ \E m \in Range(modules) :
       \E owner \in Range(DictValues(m.records)) \cup Range(DictValues(m.functions)) :
       \E lifetime_name \in LifetimeNames : \E fmt \in Formats :
         last' = Called("Lifetime.struct", owner, [fmt |-> fmt], lifetime_name,
                        Ok(Lifetime_struct(
                               IF owner.node = "record" THEN owner.fields
                               ELSE owner.return_values,
                               lifetime_name, fmt)))
    /\ UNCHANGED <<tokens, modules, abi_types, writers, first_ops>>

NextMap ==
    \/ Parse
    \/ TraitInput
    \/ WrapperIn
    \/ WrapperOut
    \/ TraitOutput
    \/ StructField
    \/ LifetimeStruct

SpecMap == InitMap /\ [][NextMap]_vars

----------------------------------------------------------------------------
(* A whole run of the backend on one module: parse, then in any order and  *)
(* any number of times the resolution queries, plan construction,          *)
(* generate and the mapper operations. The text is                         *)
(*     (mod m                                                               *)
(*       (rec b (:p int :q string)) (rec d-r (:p (ref int))) (enu e (one))  *)
(*       (rec a (:x T)) (fun get-it (:x T) (:v T))                          *)
(*       (mod k (rec b (:p bool)) (fun h (:x (ref bytes)) (:v int))))       *)
(* with T every written type                                               *)

lex_gen(w) ==
    << << "mod", <<"m">>, <<>>,
          lex_map(<<w>>, <<w>>, <<w>>)[1][4] \o << lex_member("mod k", 7) >> >> >>

GenSchemas == { lex_gen(w) : w \in MapTypes }

InitGen ==
    /\ tokens \in GenSchemas
    /\ modules = <<>>
    /\ abi_types = abi_types_initial
    /\ writers = <<>>
    /\ first_ops = <<>>
    /\ last = NoCall

NextGen ==
    \/ Parse
    \/ Resolve
    \/ PlanFunction
    \/ Generate
    \/ TraitInput
    \/ WrapperIn
    \/ WrapperOut
    \/ TraitOutput
    \/ StructField
    \/ LifetimeStruct

SpecGen == InitGen /\ [][NextGen]_vars

----------------------------------------------------------------------------
(* Vocabulary of the properties                                            *)

AllFunctions == UNION { Range(DictValues(m.functions)) : m \in Range(modules) }

AllNamedTypes == UNION { NamedTypesOf(m) : m \in Range(modules) }

\* the functions whose latest plan was built without an exception
PlannedOk ==
    { fn \in AllFunctions :
        DictHas(writers, fn.id) /\ ~ DictAt(writers, fn.id).raised }

PlanOf(fn) == DictAt(writers, fn.id)

ListOrString(rv) == is_list(rv) \/ as_datatype(rv) = DataType(s_string)

\* a WriteOp that writes a length
IsLen(op) ==
    /\ Len(op.source) >= 2
    /\ SubSeq(op.source, Len(op.source) - 1, Len(op.source)) = <<".", "len()">>

LenOps(plan) == SelectSeq(plan.write_ops, IsLen)

\* the token tree of the member that owns a node, and the flat list the
\* node was built from
OwnerTree(nt) == tokens[nt.parent[1]][4][nt.parent[2]]

OwnerList(nt) ==
    IF nt.node = "FunctionReturnValue" THEN OwnerTree(nt)[5] ELSE OwnerTree(nt)[4]

\* the type token lex() produced for a node
TypeTokenOf(nt) ==
    LET flat == OwnerList(nt)
        at == CHOOSE i \in 1..(Len(flat) \div 2) :
                 /\ flat[2 * i - 1] = nt.name
                 /\ \A j \in (i + 1)..(Len(flat) \div 2) : flat[2 * j - 1] # nt.name
    IN  flat[2 * at]

Wrote(nt, modifier) ==
    \E i \in 1..Len(TypeTokenOf(nt).modifiers) :
        TypeTokenOf(nt).modifiers[i] = modifier

\* the member trees of the module that owns a node
SiblingTrees(nt) == tokens[nt.parent[1]][4]

DeclaresRecord(nt) ==
    \E i \in 1..Len(SiblingTrees(nt)) :
        SiblingTrees(nt)[i][1] = "rec" /\ SiblingTrees(nt)[i][2] = type_name(nt)

DeclaresEnum(nt) ==
    \E i \in 1..Len(SiblingTrees(nt)) :
        SiblingTrees(nt)[i][1] = "enu" /\ SiblingTrees(nt)[i][2] = type_name(nt)

----------------------------------------------------------------------------
(* C1 *)

RECURSIVE C1_Writes(_, _)
\* the width and kind of the WriteOps the four cases give, value by value
C1_Writes(roots, values) ==
    IF values = <<>> THEN <<>>
    ELSE LET rv == values[1]
             mine ==
               IF ListOrString(rv)
               THEN << [width |-> abi_size_type, len |-> TRUE] >>
               ELSE IF is_record(roots, rv)
               THEN C1_Writes(roots, DictValues(as_record(roots, rv).val.fields))
               ELSE IF is_enum(roots, rv) \/ as_datatype(rv) = DataType(s_bool)
               THEN << [width |-> <<"u8">>, len |-> FALSE] >>
               ELSE << [width |-> DictAt(abi_types_initial, PyStr(type_name(rv))),
                        len |-> FALSE] >>
         IN  mine \o C1_Writes(roots, Tail(values))

RECURSIVE C1_Allocs(_, _)
\* the number of AllocOps the four cases give
C1_Allocs(roots, values) ==
    IF values = <<>> THEN 0
    ELSE LET rv == values[1]
             mine ==
               IF ListOrString(rv) THEN 1
               ELSE IF is_record(roots, rv)
               THEN C1_Allocs(roots, DictValues(as_record(roots, rv).val.fields))
               ELSE 0
         IN  mine + C1_Allocs(roots, Tail(values))

\* C1: every plan consists, value by value in order, of what exactly one of
\* the four cases gives: a list or bare string one AllocOp and one length
\* WriteOp; otherwise a record the ops of its fields; otherwise an enum or
\* bool one u8 WriteOp; otherwise one WriteOp of the scalar's abi_types
\* width.  A list of records, enums or bools takes the first case.
C1_FourCases ==
    \A fn \in PlannedOk :
        LET plan == PlanOf(fn)
            rvs == DictValues(fn.return_values)
        IN  /\ [i \in 1..Len(plan.write_ops) |->
                   [width |-> plan.write_ops[i].rust_type,
                    len |-> IsLen(plan.write_ops[i])]]
               = C1_Writes(modules, rvs)
            /\ Len(plan.alloc_ops) = C1_Allocs(modules, rvs)
            /\ \A i \in 1..Len(rvs) :
                 is_list(rvs[i]) =>
                   \E k \in 1..Len(plan.alloc_ops) :
                     plan.alloc_ops[k].write_op.target
                       = to_safe_snakecase(rvs[i].name) \o <<"_out">>

\* a plan holding a list of records, a list of enums or a list of bools next
\* to a flattened record
C1_Witness ==
    \E fn \in PlannedOk :
        /\ \E i \in 1..Len(fn.return_values) :
             LET rv == fn.return_values[i].value
             IN  is_list(rv) /\ is_record(modules, rv)
        /\ \E i \in 1..Len(fn.return_values) :
             LET rv == fn.return_values[i].value
             IN  ~ is_list(rv) /\ is_record(modules, rv)

----------------------------------------------------------------------------
(* C2 *)

\* the fields of a record all have a builtin type or a type the module
\* declares
FieldsDefined(roots, rec) ==
    \A i \in 1..Len(rec.fields) :
        LET f == rec.fields[i].value
        IN  is_simple_type(f) \/ is_record(roots, f) \/ is_enum(roots, f)

\* the addend the claim gives a preceding sibling
C2_Addend(roots, sib) ==
    IF ListOrString(sib) THEN <<"2 * ">> \o size_of(abi_size_type)
    ELSE IF is_record(roots, sib) THEN upper(to_safe_snakecase(type_name(sib)))
    ELSE IF is_enum(roots, sib) THEN size_of(<<"u8">>)
    ELSE size_of(DictAt(abi_types_initial, PyStr(type_name(sib))))

\* the target the claim gives field k of a record flattened under name
C2_Target(roots, name, fields, k) ==
    Join(<<" + ">>,
         << to_safe_snakecase(name) \o <<"_out">> >>
         \o [i \in 1..(k - 1) |-> C2_Addend(roots, fields[i])])

\* the targets of all ops of a plan
Targets(plan) ==
    { plan.write_ops[i].target : i \in 1..Len(plan.write_ops) }
    \cup { plan.alloc_ops[i].write_op.target : i \in 1..Len(plan.alloc_ops) }

\* the (non-list) record return values of a function whose fields are defined
FlattenedValues(fn) ==
    { rv \in Range(DictValues(fn.return_values)) :
        /\ ~ ListOrString(rv)
        /\ is_record(modules, rv)
        /\ FieldsDefined(modules, as_record(modules, rv).val) }

\* C2 as claimed: when a record is flattened, the op of each field f has
\* the target  <name>_out + one addend per field declared before f, for
\* every type the preceding fields can have (enum included)
C2_FieldTargets ==
    \A fn \in AllFunctions :
        DictHas(writers, fn.id) =>
            \A rv \in FlattenedValues(fn) :
                LET fields == DictValues(as_record(modules, rv).val.fields)
                IN  /\ ~ PlanOf(fn).raised
                    /\ \A k \in 1..Len(fields) :
                         ~ (is_record(modules, fields[k]) /\ ~ is_list(fields[k]))
                           => C2_Target(modules, rv.name, fields, k)
                                \in Targets(PlanOf(fn))

----------------------------------------------------------------------------
(* C3 *)

\* the names of the list-or-string return values of a function
ListValueNames(fn) ==
    { to_safe_snakecase(rv.name) :
        rv \in { r \in Range(DictValues(fn.return_values)) : ListOrString(r) } }

\* C3: in every plan the AllocOps and the length WriteOps pair up one to
\* one in order, all of size-type width; a return value v has the targets
\* v_out and v_out_len, a flattened field has its length one size-type
\* width after its AllocOp's target
C3_AllocLenPairs ==
    \A fn \in PlannedOk :
        LET plan == PlanOf(fn)
            lens == LenOps(plan)
        IN  /\ Len(plan.alloc_ops) = Len(lens)
            /\ Len(lens) = C1_Allocs(modules, DictValues(fn.return_values))
            /\ \A i \in 1..Len(lens) :
                 LET a == plan.alloc_ops[i].write_op
                     l == lens[i]
                 IN  /\ a.rust_type = abi_size_type
                     /\ l.rust_type = abi_size_type
                     /\ l.source = a.source \o <<".", "len()">>
                     /\ IF \E n \in ListValueNames(fn) : a.target = n \o <<"_out">>
                        THEN \E n \in ListValueNames(fn) :
                               /\ a.target = n \o <<"_out">>
                               /\ l.target = n \o <<"_out_len">>
                        ELSE l.target = a.target \o <<" + ">> \o size_of(abi_size_type)

\* a plan with a list-or-string return value and a list-or-string field
\* of a flattened record
C3_Witness ==
    \E fn \in PlannedOk :
        LET plan == PlanOf(fn)
        IN  /\ \E i \in 1..Len(plan.alloc_ops) : \E n \in ListValueNames(fn) :
                 plan.alloc_ops[i].write_op.target = n \o <<"_out">>
            /\ \E i \in 1..Len(plan.alloc_ops) :
                 \A n \in ListValueNames(fn) :
                     plan.alloc_ops[i].write_op.target # n \o <<"_out">>

----------------------------------------------------------------------------
(* C4 *)

\* where an op writes and what it reads, without the offset: the target up
\* to its slot name, and the source
RECURSIVE SlotOf(_)
SlotOf(target) ==
    IF target = <<>> THEN <<>>
    ELSE IF target[1] \in {"_out", "_out_len"} THEN <<target[1]>>
    ELSE <<target[1]>> \o SlotOf(Tail(target))

Label(op) == [slot |-> SlotOf(op.target), source |-> op.source]

RECURSIVE C4_Order(_, _, _, _, _)
\* the labels in declaration order: the values of a function (owner <<>>)
\* or the fields of a record flattened under the name owner; kind selects
\* the write list or the alloc list
C4_Order(roots, values, owner, multi, kind) ==
    IF values = <<>> THEN <<>>
    ELSE LET rv == values[1]
             name == to_safe_snakecase(rv.name)
             base == IF owner = <<>> THEN name ELSE to_safe_snakecase(owner)
             src == IF owner = <<>> /\ ~ multi THEN <<>> ELSE name
             mine ==
               IF ListOrString(rv)
               THEN IF kind = "alloc"
                    THEN << [slot |-> base \o <<"_out">>, source |-> src] >>
                    ELSE << [slot |-> base \o (IF owner = <<>> THEN <<"_out_len">>
                                                                ELSE <<"_out">>),
                             source |-> src \o <<".", "len()">>] >>
               ELSE IF is_record(roots, rv)
               THEN C4_Order(roots, DictValues(as_record(roots, rv).val.fields),
                             rv.name, multi, kind)
               ELSE IF kind = "alloc" THEN <<>>
               ELSE << [slot |-> base \o <<"_out">>, source |-> src] >>
         IN  mine \o C4_Order(roots, Tail(values), owner, multi, kind)

\* C4: the write list and the alloc list follow the declaration order of
\* the values, the ops of a flattened record standing together at the
\* record's position in the record's own field order
C4_DeclarationOrder ==
    \A fn \in PlannedOk :
        LET plan == PlanOf(fn)
            rvs == DictValues(fn.return_values)
            multi == Len(rvs) > 1
        IN  /\ [i \in 1..Len(plan.write_ops) |-> Label(plan.write_ops[i])]
               = C4_Order(modules, rvs, <<>>, multi, "write")
            /\ [i \in 1..Len(plan.alloc_ops) |-> Label(plan.alloc_ops[i].write_op)]
               = C4_Order(modules, rvs, <<>>, multi, "alloc")

\* a plan with a flattened record of two or more ops between two other values
C4_Witness ==
    \E fn \in PlannedOk :
        LET rvs == DictValues(fn.return_values)
        IN  /\ Len(rvs) >= 3
            /\ ~ ListOrString(rvs[2]) /\ is_record(modules, rvs[2])
            /\ ListOrString(rvs[1])
            /\ Len(PlanOf(fn).write_ops) >= 4
            /\ Len(PlanOf(fn).alloc_ops) >= 2

----------------------------------------------------------------------------
(* C5 *)

\* C5: whatever was planned in between, a function planned again gets the
\* plan it got the first time
C5_Deterministic ==
    \A fn \in AllFunctions :
        DictHas(writers, fn.id) =>
            /\ DictHas(first_ops, fn.id)
            /\ PlanOf(fn) = DictAt(first_ops, fn.id).plan

\* a function planned a second time, after the planning of a list or string
\* changed Types.abi_types, and with another function planned too
C5_Witness ==
    /\ abi_types # abi_types_initial
    /\ \E fn \in PlannedOk :
         /\ DictAt(first_ops, fn.id).rebuilt
         /\ Len(PlanOf(fn).write_ops) > 0
    /\ Len(writers) >= 2

----------------------------------------------------------------------------
(* C6 *)

\* C6 as claimed: building plans leaves the class-level table Types.abi_types
\* as the class body set it
C6_TablesUnchanged == abi_types = abi_types_initial

----------------------------------------------------------------------------
(* C7 *)

\* the position among the owner's siblings of the last declaration of the
\* node's type name with the given keyword
LastDeclared(nt, keyword) ==
    CHOOSE i \in 1..Len(SiblingTrees(nt)) :
        /\ SiblingTrees(nt)[i][1] = keyword
        /\ SiblingTrees(nt)[i][2] = type_name(nt)
        /\ \A j \in (i + 1)..Len(SiblingTrees(nt)) :
             ~ (SiblingTrees(nt)[j][1] = keyword
                /\ SiblingTrees(nt)[j][2] = type_name(nt))

\* C7: as_record on a node whose type names a record declared among the
\* direct members of its module, before or after the node's owner, returns
\* that record and is_record is truthy; likewise as_enum and is_enum
C7_ForwardReferences ==
    /\ (last.method = "as_record" /\ DeclaresRecord(last.node)) =>
          /\ ~ last.result.raised
          /\ last.result.val.node = "record"
          /\ last.result.val.name = type_name(last.node)
          /\ last.result.val.id
               = Append(last.node.parent_module, LastDeclared(last.node, "rec"))
          /\ is_record(modules, last.node)
    /\ (last.method = "as_enum" /\ DeclaresEnum(last.node)) =>
          /\ ~ last.result.raised
          /\ last.result.val.node = "enumeration"
          /\ last.result.val.name = type_name(last.node)
          /\ last.result.val.id
               = Append(last.node.parent_module, LastDeclared(last.node, "enu"))
          /\ is_enum(modules, last.node)

\* as_record returned a record declared after the member that refers to it
C7_Witness ==
    /\ last.method = "as_record"
    /\ ~ last.result.raised
    /\ last.result.val # NoneV
    /\ last.result.val.id[2] > last.node.parent[2]

----------------------------------------------------------------------------
(* C8 *)

\* the node's type is a name that no record and no enum of its module has
Undefined(nt) ==
    /\ nt.data_type.cls = "str"
    /\ ~ DeclaresRecord(nt)
    /\ ~ DeclaresEnum(nt)

\* C8: an undefined type name never makes parsing fail; every as_record and
\* as_enum call on such a node raises an error that names the type and has
\* the line and column of the node's type token
C8_UndefinedRaisesAtUse ==
    /\ last.method # "parse"
    /\ (last.method \in {"as_record", "as_enum"} /\ Undefined(last.node)) =>
          /\ last.result.raised
          /\ last.result.err.type = "TurboSyntaxError"
          /\ last.result.err.message
               = <<"Undefined data type '">> \o TypeTokenOf(last.node).name \o <<"'">>
          /\ last.result.err.lineno = TypeTokenOf(last.node).line
          /\ last.result.err.column = TypeTokenOf(last.node).column

\* a schema with an undefined name was parsed and as_enum was called on the
\* node, whose type token stands after modifiers
C8_Witness ==
    /\ modules # <<>>
    /\ last.method = "as_enum"
    /\ Undefined(last.node)
    /\ TypeTokenOf(last.node).modifiers # <<>>
    /\ last.result.raised
    /\ last.result.err.lineno # last.result.err.column

----------------------------------------------------------------------------
(* C9 *)

\* C9 as claimed: on a node whose type name the module defines, as a record
\* or as an enum, neither as_record nor as_enum raises
C9_RaisesOnlyWhenUndefined ==
    (/\ last.method \in {"as_record", "as_enum"}
     /\ (DeclaresRecord(last.node) \/ DeclaresEnum(last.node)))
        => ~ last.result.raised

----------------------------------------------------------------------------
(* C10 *)

\* C10: a node of type bytes is a list whatever was written; is_reference
\* holds exactly when ref was written; for every other type is_list holds
\* exactly when list was written
C10_Modifiers ==
    \A nt \in AllNamedTypes :
        /\ as_datatype(nt) = DataType(s_bytes) => is_list(nt)
        /\ is_reference(nt) <=> Wrote(nt, s_ref)
        /\ as_datatype(nt) # DataType(s_bytes) =>
              (is_list(nt) <=> Wrote(nt, s_list))

\* nodes of type bytes written bare and with ref alone, and a node of
\* another type written with list alone
C10_Witness ==
    /\ \E nt \in AllNamedTypes :
         /\ as_datatype(nt) = DataType(s_bytes)
         /\ TypeTokenOf(nt).modifiers \in { <<>>, <<s_ref>> }
         /\ is_list(nt)
    /\ \E nt \in AllNamedTypes :
         /\ as_datatype(nt) # DataType(s_bytes)
         /\ is_list(nt) /\ ~ is_reference(nt)

----------------------------------------------------------------------------
(* C11 *)

RECURSIVE TreeFrom(_, _)
TreeFrom(tree, path) ==
    IF path = <<>> THEN tree ELSE TreeFrom(tree[4][path[1]], Tail(path))

\* the token tree a module, function, record or enum was built from
TreeAt(id) == TreeFrom(tokens[id[1]], Tail(id))

KindOf(keyword) ==
    CASE keyword = "fun" -> "function"
      [] keyword = "rec" -> "record"
      [] keyword = "enu" -> "enumeration"
      [] OTHER -> "module"

\* C11: every member of a module has that module as its parent_module;
\* is_root_module is true exactly for the modules built with no enclosing
\* module; a module declared without members has an empty member list
C11_ParentsAndRoots ==
    /\ \A m \in AllModules :
         /\ \A i \in 1..Len(m.members) :
              /\ m.members[i].parent_module = m.id
              /\ deref(modules, m.members[i].parent_module) = m
         /\ is_root_module(m) <=> (\E i \in 1..Len(modules) : modules[i] = m)
         /\ is_root_module(m) <=> Len(m.id) = 1
         /\ TreeAt(m.id)[4] = <<>> => m.members = <<>>
    /\ last.method = "is_root_module" =>
         (last.result.val.is_root_module <=> Len(last.node.id) = 1)

\* the tree has a nested module with members and a module with none, and a
\* nested module answered that it is no root
C11_Witness ==
    /\ \E m \in AllModules : Len(m.id) > 1 /\ Len(m.members) = 2
    /\ \E m \in AllModules : m.members = <<>>
    /\ last.method = "is_root_module"
    /\ ~ last.result.val.is_root_module

----------------------------------------------------------------------------
(* C12 *)

\* a map of a module holds, for each name, the last member of its kind
\* declared with that name, and has a key for every member of the kind
MapOfKind(m, map, kind) ==
    /\ \A a, b \in 1..Len(map) : map[a].key = map[b].key => a = b
    /\ \A a \in 1..Len(map) :
         \E i \in 1..Len(m.members) :
            /\ m.members[i] = map[a].value
            /\ m.members[i].node = kind
            /\ m.members[i].name = map[a].key
            /\ \A j \in (i + 1)..Len(m.members) :
                 ~ (m.members[j].node = kind /\ m.members[j].name = map[a].key)
    /\ \A i \in 1..Len(m.members) :
         m.members[i].node = kind => DictHas(map, m.members[i].name)

\* C12: members holds every declared member in declaration order,
\* duplicates included; functions, records and enums map each name to the
\* last member of that kind declared with it
C12_MembersAndMaps ==
    \A m \in AllModules :
        LET declared == TreeAt(m.id)[4]
        IN  /\ Len(m.members) = Len(declared)
            /\ \A i \in 1..Len(declared) :
                 /\ m.members[i].name = declared[i][2]
                 /\ m.members[i].node = KindOf(declared[i][1])
                 /\ m.members[i].id = Append(m.id, i)
            /\ MapOfKind(m, m.functions, "function")
            /\ MapOfKind(m, m.records, "record")
            /\ MapOfKind(m, m.enums, "enumeration")

\* a module that declares record b twice, with different fields, and an
\* enum b: the list has all three, the record map the later record
C12_Witness ==
    \E m \in AllModules :
        /\ Len(m.members) = 3
        /\ \E i, j \in 1..3 :
             /\ i < j
             /\ m.members[i].node = "record" /\ m.members[j].node = "record"
             /\ m.members[i].name = m.members[j].name
             /\ m.members[i].fields # m.members[j].fields
             /\ DictAt(m.records, m.members[j].name) = m.members[j]
        /\ Len(m.enums) = 1
        /\ DictHas(m.records, DictKeys(m.enums)[1])

----------------------------------------------------------------------------
(* C13 *)

\* the flat list  name, type, name, type ...  has pairwise distinct names
DistinctNames(flat) ==
    \A i, j \in 1..(Len(flat) \div 2) :
        flat[2 * i - 1] = flat[2 * j - 1] => i = j

\* a dict of a function holds the declared pairs in declaration order
DeclaredPairs(d, flat, cls) ==
    /\ Len(d) = Len(flat) \div 2
    /\ \A i \in 1..Len(d) :
         /\ d[i].key = flat[2 * i - 1]
         /\ d[i].value.node = cls
         /\ d[i].value.name = flat[2 * i - 1]
         /\ type_name(d[i].value) = flat[2 * i].name
         /\ is_simple_type(d[i].value) <=> flat[2 * i].type = "builtin"
         /\ d[i].value.line = flat[2 * i].line
         /\ d[i].value.column = flat[2 * i].column
         /\ \A k \in 1..Len(flat[2 * i].modifiers) :
              d[i].value.modifiers[k]
                = Modifier_parse(flat[2 * i].modifiers[k]).val

\* every function of the tree, those shadowed in the maps included
AllTreeFunctions ==
    UNION { { n \in Range(m.members) : n.node = "function" } : m \in AllModules }

\* C13: a function declared with distinct argument names and distinct
\* return-value names has exactly the declared pairs, in order, in
\* arguments and return_values, and its derived facts follow the counts
C13_FunctionShape ==
    /\ \A fn \in AllTreeFunctions :
         LET args == TreeAt(fn.id)[4]
             rets == TreeAt(fn.id)[5]
         IN  (DistinctNames(args) /\ DistinctNames(rets)) =>
               /\ DeclaredPairs(fn.arguments, args, "FunctionArgument")
               /\ DeclaredPairs(fn.return_values, rets, "FunctionReturnValue")
               /\ num_arguments(fn) = Len(args) \div 2
               /\ num_returns(fn) = Len(rets) \div 2
               /\ has_return_values(fn) <=> Len(rets) \div 2 >= 1
               /\ is_multi_return(fn) <=> Len(rets) \div 2 >= 2
               /\ IF rets = <<>> THEN get_first_return_value(fn) = NoneV
                  ELSE /\ get_first_return_value(fn) # NoneV
                       /\ get_first_return_value(fn).name = rets[1]
                       /\ get_first_return_value(fn)
                            = DictAt(fn.return_values, rets[1])
    /\ last.method = "function" =>
         LET fn == last.node
             facts == last.result.val
         IN  /\ facts.num_arguments = Len(TreeAt(fn.id)[4]) \div 2
             /\ facts.num_returns = Len(TreeAt(fn.id)[5]) \div 2
             /\ facts.has_return_values <=> TreeAt(fn.id)[5] # <<>>
             /\ facts.is_multi_return <=> Len(TreeAt(fn.id)[5]) >= 4

\* a function with two arguments and two return values was asked for its
\* facts, in a tree that also has a function without return values
C13_Witness ==
    /\ last.method = "function"
    /\ last.result.val.num_arguments = 2
    /\ last.result.val.is_multi_return
    /\ last.result.val.get_first_return_value # NoneV
    /\ \E fn \in AllTreeFunctions :
         /\ ~ has_return_values(fn)
         /\ get_first_return_value(fn) = NoneV

----------------------------------------------------------------------------
(* C14 *)

HasPiece(str, piece) == \E i \in 1..Len(str) : str[i] = piece

\* str starts with the pieces of prefix
StartsWith(str, prefix) ==
    /\ Len(str) >= Len(prefix)
    /\ SubSeq(str, 1, Len(prefix)) = prefix

\* the list modifier was written or the type is bytes
ListOrBytes(nt) == Wrote(nt, s_list) \/ TypeTokenOf(nt).name = s_bytes

\* C14: trait_input declares the argument borrowed, with the given
\* lifetime, exactly when it is marked ref, is a list (bytes included), has
\* type string or is a record; otherwise it is declared by value
C14_BorrowedInputs ==
    (last.method = "trait_input" /\ ~ Undefined(last.node)) =>
        LET arg == last.node
            borrowed == \/ Wrote(arg, s_ref)
                        \/ ListOrBytes(arg)
                        \/ TypeTokenOf(arg).name = s_string
                        \/ DeclaresRecord(arg)
        IN  /\ ~ last.result.raised
            /\ HasPiece(last.result.val, "&'") <=> borrowed
            /\ StartsWith(last.result.val,
                   to_safe_snakecase(arg.name) \o <<": ">>
                   \o (IF borrowed THEN <<"&'">> \o last.lifetime_name
                       ELSE <<>>)
                   \o <<" ">>)

\* a record argument without modifiers was declared borrowed
C14_Witness ==
    /\ last.method = "trait_input"
    /\ DeclaresRecord(last.node)
    /\ TypeTokenOf(last.node).modifiers = <<>>
    /\ ~ last.result.raised
    /\ HasPiece(last.result.val, "&'")

----------------------------------------------------------------------------
(* C15 *)

\* the argument-position wire type of a scalar
ArgumentWireType(name) ==
    CASE name = s_int -> <<"i64">>
      [] name = s_float -> <<"f64">>
      [] name = s_bool -> <<"i32">>
      [] OTHER -> <<"i64">>

\* C15: wrapper_in gives a list a size-typed handle and a size-typed
\* <name>_len, a record one size-typed handle, an enum one i32, and a scalar
\* one parameter of its argument-position wire type; bytes is always a list
C15_WrapperInputs ==
    (/\ last.method = "wrapper_in"
     /\ (ListOrBytes(last.node) \/ ~ Undefined(last.node))) =>
        LET arg == last.node
            name == to_safe_snakecase(arg.name)
            size == last.self.abi_size_type
        IN  /\ ~ last.result.raised
            /\ last.result.val =
                 IF ListOrBytes(arg)
                 THEN name \o <<": ">> \o size \o <<",">>
                      \o <<"\n">> \o name \o <<"_len:", " ">> \o size
                 ELSE IF DeclaresRecord(arg)
                 THEN name \o <<": ">> \o size \o <<",">>
                 ELSE IF DeclaresEnum(arg)
                 THEN name \o <<": ">> \o <<"i32">> \o <<",">>
                 ELSE name \o <<": ">>
                      \o ArgumentWireType(TypeTokenOf(arg).name) \o <<",">>

\* a bytes argument written without list got a handle and a length, of the
\* 32 bit size type
C15_Witness ==
    /\ last.method = "wrapper_in"
    /\ TypeTokenOf(last.node).name = s_bytes
    /\ ~ Wrote(last.node, s_list)
    /\ last.self.abi_size_type = <<"i32">>
    /\ ~ last.result.raised
    /\ HasPiece(last.result.val, "_len:")

----------------------------------------------------------------------------
(* C16 *)

\* C16: wrapper_out never fails and gives every return value one size-typed
\* <name>_out slot, and a size-typed <name>_out_len slot exactly when the
\* value is a list or has type string
C16_WrapperOutputs ==
    last.method = "wrapper_out" =>
        LET rv == last.node
            name == to_safe_snakecase(rv.name)
            size == last.self.abi_size_type
        IN  /\ ~ last.result.raised
            /\ last.result.val =
                 name \o <<"_out: ">> \o size \o <<",">>
                 \o (IF ListOrBytes(rv) \/ TypeTokenOf(rv).name = s_string
                     THEN <<"\n">> \o name \o <<"_out_len:", " ">> \o size
                     ELSE <<>>)

\* a return value of an undefined type got its single slot
C16_Witness ==
    /\ last.method = "wrapper_out"
    /\ Undefined(last.node)
    /\ ~ ListOrBytes(last.node)
    /\ ~ last.result.raised
    /\ ~ HasPiece(last.result.val, "_out_len:")

----------------------------------------------------------------------------
(* C17 *)

\* C17: trait_output is "()" without return values; with one it is the
\* value's type, with "&" exactly when ref was written and a sequence
\* exactly when the value is a list; with more it is the camel-cased
\* function name followed by Result, with a lifetime exactly when some
\* return value is marked ref
C17_TraitOutput ==
    last.method = "trait_output" =>
        LET fn == last.node
            rets == DictValues(fn.return_values)
        IN  IF Len(rets) = 0 THEN last.result = Ok(<<"()">>)
            ELSE IF Len(rets) = 1
            THEN ~ Undefined(rets[1]) =>
                   /\ ~ last.result.raised
                   /\ last.result.val[1] = "&" <=> Wrote(rets[1], s_ref)
                   /\ (\/ HasPiece(last.result.val, "[")
                       \/ HasPiece(last.result.val, "Vec<"))
                        <=> ListOrBytes(rets[1])
                   /\ ~ HasPiece(last.result.val, "Result")
            ELSE /\ ~ last.result.raised
                 /\ last.result.val =
                      <<"G","e","t","I","t","R","e","s","u","l","t">>
                      \o (IF \E i \in 1..Len(rets) : Wrote(rets[i], s_ref)
                          THEN <<"<", "'", "_", ">">> ELSE <<>>)

\* a function with two return values, one marked ref
C17_Witness ==
    /\ last.method = "trait_output"
    /\ Len(last.node.return_values) = 2
    /\ ~ last.result.raised
    /\ HasPiece(last.result.val, "<")

----------------------------------------------------------------------------
(* C18 *)

\* C18: Lifetime.struct gives a non-empty declaration exactly when a field
\* (or return value) of the aggregate was written with ref
C18_LifetimeOnlyForRefs ==
    last.method = "Lifetime.struct" =>
        LET fields == DictValues(IF last.node.node = "record"
                                 THEN last.node.fields
                                 ELSE last.node.return_values)
            any_ref == \E i \in 1..Len(fields) : Wrote(fields[i], s_ref)
        IN  /\ ~ last.result.raised
            /\ last.result.val # <<>> <=> any_ref
            /\ any_ref => HasPiece(last.result.val, "'")
            /\ any_ref => StartsWith(last.result.val,
                              (IF last.self.fmt = DefaultFmt THEN <<"<">>
                               ELSE <<>>) \o <<"'">> \o last.lifetime_name)

\* an aggregate of two values of which only the second is a reference
C18_Witness ==
    /\ last.method = "Lifetime.struct"
    /\ last.node.node = "function"
    /\ Len(last.node.return_values) = 2
    /\ ~ Wrote(DictValues(last.node.return_values)[1], s_ref)
    /\ Wrote(DictValues(last.node.return_values)[2], s_ref)
    /\ last.result.val # <<>>

----------------------------------------------------------------------------
(* C19 *)

\* the functions that are direct members of a root module
DirectFunctions ==
    UNION { Range(DictValues(m.functions)) : m \in Range(modules) }

\* C19: once the tree is built no step of code generation changes it, and a
\* return_value_writer is only ever set on a Function that is a direct
\* member of the generated module
C19_TreeUnaltered ==
    [][modules # <<>> =>
         /\ modules' = modules
         /\ \A i \in 1..Len(writers') :
              \E fn \in DirectFunctions : writers'[i].key = fn.id]_vars

\* the tree is still what parse built from the text after writers were
\* attached and the mapper was called
C19_Witness ==
    /\ modules = [i \in 1..Len(tokens) |-> parse(tokens[i], NoModule, <<i>>).val]
    /\ \E fn \in DirectFunctions :
         DictHas(writers, fn.id) /\ ~ DictAt(writers, fn.id).raised
    /\ DictAt(first_ops, writers[1].key).rebuilt
    /\ last.method = "trait_output"
    /\ ~ last.result.raised

----------------------------------------------------------------------------
(* C20 *)

\* an exception a caller of the backend is promised: TurboException or its
\* subclass TurboSyntaxError, with a message
IsTurboException(err) ==
    /\ err.type \in {"TurboException", "TurboSyntaxError"}
    /\ err.message # <<>>

MapperMethods ==
    {"trait_input", "trait_output", "struct_field", "struct_field pub",
     "wrapper_in", "wrapper_out"}

\* C20: whatever plan construction or a mapper operation raises is a
\* TurboException (or a subclass) carrying a message
C20_OnlyTurboExceptions ==
    /\ (last.method \in MapperMethods /\ last.result.raised) =>
          IsTurboException(last.result.err)
    /\ \A i \in 1..Len(writers) :
          writers[i].value.raised => IsTurboException(writers[i].value.err)

----------------------------------------------------------------------------
(* lex on text. A text is a sequence of lexemes: "(" and ")", words (an     *)
(* identifier or keyword, with or without a leading ":"), quoted strings    *)
(* and comments. Lexemes on a line are one blank apart; a comment runs to   *)
(* the end of its line, so the lexeme after it starts the next line.        *)
(* The grammar of lex is data, read by parse_expr as pyparsing reads it.    *)

Lexeme(kind, text, colon) == [kind |-> kind, text |-> text, colon |-> colon]
Open == Lexeme("(", <<>>, FALSE)
Close == Lexeme(")", <<>>, FALSE)
Word(text) == Lexeme("word", text, FALSE)
ColonWord(text) == Lexeme("word", text, TRUE)
Quoted(text) == Lexeme("str", text, FALSE)
Comment == Lexeme("comment", <<"c">>, FALSE)

\* number of characters of a lexeme
Width(lexeme) ==
    CASE lexeme.kind = "word" -> Len(lexeme.text) + (IF lexeme.colon THEN 1 ELSE 0)
      [] lexeme.kind = "str" -> Len(lexeme.text) + 2
      [] lexeme.kind = "comment" -> Len(lexeme.text) + 1
      [] OTHER -> 1

\* pp.lineno(loc, orig), loc being the start of lexeme i
lineno(text, i) ==
    1 + Cardinality({j \in 1..(i - 1) : text[j].kind = "comment"})

\* the first lexeme of the line lexeme i is on
line_start(text, i) ==
    LET ends == {j \in 1..(i - 1) : text[j].kind = "comment"}
    IN  IF ends = {} THEN 1
        ELSE 1 + CHOOSE j \in ends : \A k \in ends : k <= j

\* pp.col(loc, orig), loc being the start of lexeme i: one more than the
\* number of characters before it on its line, every lexeme being followed
\* by one blank
col(text, i) ==
    1 + Cardinality(UNION { {j} \X (0..Width(text[j])) :
                              j \in line_start(text, i)..(i - 1) })

\* mutant: nothing is ignored
skip_ignorables_nothing(text, i) == i

RECURSIVE skip_ignorables(_, _)
\* ParserElement._skipIgnorables with ignore(";" + restOfLine): the first
\* lexeme from i on that is no comment
skip_ignorables(text, i) ==
    IF i <= Len(text) /\ text[i].kind = "comment"
    THEN skip_ignorables(text, i + 1)
    ELSE i

\* outcomes of matching an expression: the tokens and the next location, a
\* ParseException (another alternative may match), or an exception raised
\* by a parse action
Matched(toks, next) == [ok |-> TRUE, fatal |-> FALSE, err |-> NoErr, toks |-> toks, next |-> next]
ParseException == [ok |-> FALSE, fatal |-> FALSE, err |-> NoErr, toks |-> <<>>, next |-> 0]
Raised(err) == [ok |-> FALSE, fatal |-> TRUE, err |-> err, toks |-> <<>>, next |-> 0]

\* an expression of the grammar
Expr(op, arg, exprs) == [op |-> op, arg |-> arg, exprs |-> exprs]
Leaf(op, arg) == Expr(op, arg, <<>>)
And(exprs) == Expr("And", <<>>, exprs)
MatchFirst(exprs) == Expr("MatchFirst", <<>>, exprs)
Group(expr) == Expr("Group", <<>>, <<expr>>)
ZeroOrMore(expr) == Expr("ZeroOrMore", <<>>, <<expr>>)
Optional(expr, default) == Expr("Optional", default, <<expr>>)
ParseAction(expr, fn) == Expr("ParseAction", fn, <<expr>>)
Keyword(text) == Leaf("Keyword", text)

begin == Leaf("Suppress", "(")
end == Leaf("Suppress", ")")
identifier == Leaf("identifier", <<>>)
docstring == Leaf("QuotedString", <<>>)

actual_data_type ==
    MatchFirst(<< ParseAction(MatchFirst(<< Keyword(s_string), Keyword(s_int),
                                            Keyword(s_float), Keyword(s_bool),
                                            Keyword(s_bytes) >>),
                              "_parse_builtin_type"),
                  ParseAction(identifier, "_parse_record_or_enum") >>)

data_type ==
    MatchFirst(<< actual_data_type,
                  And(<< begin,
                         ParseAction(
                             Group(And(<< MatchFirst(<< Keyword(s_list), Keyword(s_ref) >>),
                                          ZeroOrMore(MatchFirst(<< Keyword(s_list), Keyword(s_ref) >>)),
                                          actual_data_type >>)),
                             "_parse_modifiers"),
                         end >>) >>)

arg_list ==
    Group(And(<< begin, ZeroOrMore(And(<< identifier, data_type >>)), end >>))

function ==
    And(<< begin,
           Group(And(<< Keyword(<<"f","u","n">>), identifier,
                        Optional(docstring, <<>>), arg_list, arg_list >>)),
           end >>)

enum ==
    And(<< begin,
           Group(And(<< Keyword(<<"e","n","u">>), identifier,
                        Optional(docstring, <<>>),
                        Group(And(<< begin, ZeroOrMore(identifier), end >>)) >>)),
           end >>)

record ==
    And(<< begin,
           Group(And(<< Keyword(<<"r","e","c">>), identifier,
                        Optional(docstring, <<>>), arg_list >>)),
           end >>)

\* module <<= ...; Forward stands for module itself
module ==
    And(<< begin,
           Group(And(<< Keyword(<<"m","o","d">>), identifier,
                        Optional(docstring, <<>>),
                        Group(ZeroOrMore(MatchFirst(<<
                            function, record, enum, Leaf("Forward", <<>>),
                            And(<< begin,
                                   ParseAction(identifier, "_unknown_keyword") >>)
                            >>))) >>)),
           end >>)

\* the dict _parse_builtin_type and _parse_record_or_enum give for the name
\* matched at lexeme loc
parsed_type(text, loc, toks, type) ==
    [name |-> toks[1], type |-> type, line |-> lineno(text, loc),
     column |-> col(text, loc), modifiers |-> <<>>]

\* setParseAction(fn): fn on the tokens matched from lexeme loc on
call_parse_action(fn, text, loc, m) ==
    IF ~ m.ok THEN m
    ELSE CASE fn = "_parse_builtin_type" ->
                Matched(<< parsed_type(text, loc, m.toks, "builtin") >>, m.next)
           [] fn = "_parse_record_or_enum" ->
                Matched(<< parsed_type(text, loc, m.toks, "record-or-enum") >>, m.next)
           [] fn = "_parse_modifiers" ->
                \* dict(toks[0][-1]) | {"modifiers": toks[0][:-1]}
                Matched(<< [m.toks[1][Len(m.toks[1])] EXCEPT
                              !.modifiers = SubSeq(m.toks[1], 1, Len(m.toks[1]) - 1)] >>,
                        m.next)
           [] OTHER ->
                Raised(TurboSyntaxError(
                    <<"Unexpected keyword: \"">> \o m.toks[1] \o <<"\"">>,
                    lineno(text, loc), col(text, loc)))

\* the token of a matched keyword; those of the four forms are the keys of
\* PARSERS
keyword_token(text) ==
    CASE text = <<"f","u","n">> -> "fun"
      [] text = <<"r","e","c">> -> "rec"
      [] text = <<"e","n","u">> -> "enu"
      [] text = <<"m","o","d">> -> "mod"
      [] OTHER -> text

\* a token: the lexeme at loc if it is what the expression matches
match_token(e, text, loc) ==
    IF loc > Len(text) THEN ParseException
    ELSE CASE e.op = "Suppress" ->
                IF text[loc].kind = e.arg THEN Matched(<<>>, loc + 1)
                ELSE ParseException
           [] e.op = "Keyword" ->
                IF text[loc].kind = "word" /\ ~ text[loc].colon /\ text[loc].text = e.arg
                THEN Matched(<< keyword_token(e.arg) >>, loc + 1)
                ELSE ParseException
           [] e.op = "identifier" ->
                IF text[loc].kind = "word"
                THEN Matched(<< text[loc].text >>, loc + 1) ELSE ParseException
           [] OTHER ->
                IF text[loc].kind = "str"
                THEN Matched(<< text[loc].text >>, loc + 1) ELSE ParseException

\* what follows a matched part of an And or a matched pass of a ZeroOrMore
then_toks(first, rest) ==
    IF rest.ok THEN Matched(first.toks \o rest.toks, rest.next) ELSE rest

\* ZeroOrMore after its expression ended with m at location i
more_or_done(m, i) == IF m.fatal THEN m ELSE Matched(<<>>, i)

\* Optional after its expression ended with m at location i
optional_or(m, default, i) ==
    IF m.ok \/ m.fatal THEN m ELSE Matched(<< default >>, i)

group_toks(m) == IF m.ok THEN Matched(<< m.toks >>, m.next) ELSE m

RECURSIVE parse_expr(_, _, _)
RECURSIVE parse_and(_, _, _, _)
RECURSIVE parse_first(_, _, _, _, _)
RECURSIVE parse_more(_, _, _, _)

\* And: exprs[k], exprs[k+1] ... one after the other, m being the outcome
\* of exprs[k]
parse_and(exprs, text, k, m) ==
    IF ~ m.ok \/ k = Len(exprs) THEN m
    ELSE then_toks(m, parse_and(exprs, text, k + 1,
                                parse_expr(exprs[k + 1], text, m.next)))

\* MatchFirst: the first of exprs[k], exprs[k+1] ... that matches, m being
\* the outcome of exprs[k]
parse_first(exprs, text, i, k, m) ==
    IF m.ok \/ m.fatal \/ k = Len(exprs) THEN m
    ELSE parse_first(exprs, text, i, k + 1, parse_expr(exprs[k + 1], text, i))

\* ZeroOrMore: m is the outcome of one more pass, tried at location i
parse_more(expr, text, i, m) ==
    IF ~ m.ok THEN more_or_done(m, i)
    ELSE then_toks(m, parse_more(expr, text, m.next,
                                 parse_expr(expr, text, m.next)))

\* ParserElement._parse: preParse skips what is ignored, then the
\* expression is matched and its parse action called
parse_expr(e, text, i) ==
    CASE e.op = "And" ->
           parse_and(e.exprs, text, 1, parse_expr(e.exprs[1], text, i))
      [] e.op = "MatchFirst" ->
           parse_first(e.exprs, text, i, 1, parse_expr(e.exprs[1], text, i))
      [] e.op = "Group" -> group_toks(parse_expr(e.exprs[1], text, i))
      [] e.op = "ZeroOrMore" ->
           parse_more(e.exprs[1], text, i, parse_expr(e.exprs[1], text, i))
      [] e.op = "Optional" ->
           optional_or(parse_expr(e.exprs[1], text, i), e.arg, i)
      [] e.op = "ParseAction" ->
           call_parse_action(e.arg, text, skip_ignorables(text, i),
                             parse_expr(e.exprs[1], text, i))
      [] e.op = "Forward" -> parse_expr(module, text, i)
      [] OTHER -> match_token(e, text, skip_ignorables(text, i))

\* parseString(turbo_isl, parseAll=True) after the forms matched with m
parse_all(text, m) ==
    IF m.fatal THEN Raise(m.err)
    ELSE IF skip_ignorables(text, m.next) <= Len(text)
    THEN Raise([type |-> "ParseException", message |-> <<"Expected end of text">>,
                lineno |-> lineno(text, skip_ignorables(text, m.next)),
                column |-> col(text, skip_ignorables(text, m.next))])
    ELSE Ok(m.toks)

\* lex(turbo_isl): module.ignore(";" + restOfLine)[...].parseString(...)
lex_text(text) == parse_all(text, parse_expr(ZeroOrMore(module), text, 1))

----------------------------------------------------------------------------
(* main on a text: lex, parse of every form, then the resolution queries   *)
(* on any node of any module. The texts are                                *)
(*   (mod m "doc" (rec b "d" (:p (ref int) :q b)) (enu e (one two)) (fun f (:x (list e)) (:v string)) (mod k)) *)
(*   (mod m (rec b (:p int)) (fun f (:x b :y e :z w) ()) (mod k (enu e (one *)
(*     )) (fun g (:x b :y e) ()))) (mod n (rec w (:p bool)) (fun h (:x b :y w) ())) *)
(*   (mod a) (mod b)                                                        *)
(*   (mod m (foo x))                                                        *)
(* and the empty text, each also with comments between its lexemes         *)

MaxComments == 2

TextDocumented ==
    << Open, Word(<<"m","o","d">>), Word(<<"m">>), Quoted(<<"doc">>), Open,
       Word(<<"r","e","c">>), Word(<<"b">>), Quoted(<<"d">>), Open,
       ColonWord(<<"p">>), Open, Word(<<"r","e","f">>), Word(<<"i","n","t">>),
       Close, ColonWord(<<"q">>), Word(<<"b">>), Close, Close, Open,
       Word(<<"e","n","u">>), Word(<<"e">>), Open, Word(<<"o","n","e">>),
       Word(<<"t","w","o">>), Close, Close, Open, Word(<<"f","u","n">>),
       Word(<<"f">>), Open, ColonWord(<<"x">>), Open,
       Word(<<"l","i","s","t">>), Word(<<"e">>), Close, Close, Open,
       ColonWord(<<"v">>), Word(<<"s","t","r","i","n","g">>), Close, Close,
       Open, Word(<<"m","o","d">>), Word(<<"k">>), Close, Close >>

TextNested ==
    << Open, Word(<<"m","o","d">>), Word(<<"m">>), Open,
       Word(<<"r","e","c">>), Word(<<"b">>), Open, ColonWord(<<"p">>),
       Word(<<"i","n","t">>), Close, Close, Open, Word(<<"f","u","n">>),
       Word(<<"f">>), Open, ColonWord(<<"x">>), Word(<<"b">>),
       ColonWord(<<"y">>), Word(<<"e">>), ColonWord(<<"z">>), Word(<<"w">>),
       Close, Open, Close, Close, Open, Word(<<"m","o","d">>), Word(<<"k">>),
       Open, Word(<<"e","n","u">>), Word(<<"e">>), Open,
       Word(<<"o","n","e">>), Close, Close, Open, Word(<<"f","u","n">>),
       Word(<<"g">>), Open, ColonWord(<<"x">>), Word(<<"b">>),
       ColonWord(<<"y">>), Word(<<"e">>), Close, Open, Close, Close, Close,
       Close, Open, Word(<<"m","o","d">>), Word(<<"n">>), Open,
       Word(<<"r","e","c">>), Word(<<"w">>), Open, ColonWord(<<"p">>),
       Word(<<"b","o","o","l">>), Close, Close, Open, Word(<<"f","u","n">>),
       Word(<<"h">>), Open, ColonWord(<<"x">>), Word(<<"b">>),
       ColonWord(<<"y">>), Word(<<"w">>), Close, Open, Close, Close, Close >>

TextTwoRoots ==
    << Open, Word(<<"m","o","d">>), Word(<<"a">>), Close, Open,
       Word(<<"m","o","d">>), Word(<<"b">>), Close >>

TextUnknownKeyword ==
    << Open, Word(<<"m","o","d">>), Word(<<"m">>), Open,
       Word(<<"f","o","o">>), Word(<<"x">>), Close, Close >>

InsertAt(text, i, lexeme) ==
    SubSeq(text, 1, i) \o <<lexeme>> \o SubSeq(text, i + 1, Len(text))

RECURSIVE Commented(_, _)
\* text with up to n comments put between its lexemes, before the first or
\* after the last
Commented(text, n) ==
    IF n = 0 THEN {text}
    ELSE LET fewer == Commented(text, n - 1)
         IN  fewer \cup { InsertAt(t, i, Comment) : t \in fewer, i \in 0..Len(text) }

\* the long text takes at most two comments, the short ones MaxComments
Texts ==
    Commented(TextDocumented, IF MaxComments > 2 THEN 2 ELSE MaxComments)
    \cup Commented(TextNested, 1)
    \cup Commented(TextTwoRoots, MaxComments)
    \cup Commented(TextUnknownKeyword, 1)
    \cup Commented(<<>>, MaxComments)

InitLex ==
    /\ tokens = <<>>
    /\ modules = <<>>
    /\ abi_types = abi_types_initial
    /\ writers = <<>>
    /\ first_ops = <<>>
    /\ last = NoCall

\* the outcome of lex(text)
Lexed(text, lexed) ==
    /\ last' = [method |-> "lex", node |-> text, result |-> lexed]
    /\ tokens' = IF lexed.raised THEN <<>> ELSE lexed.val

\* main: lex(turbo_file.read())
Lex ==
    /\ last.method = "none"
    /\ \E text \in Texts : Lexed(text, lex_text(text))
    /\ UNCHANGED <<modules, abi_types, writers, first_ops>>

\* main: map(parse, ...) over the lexed forms
ParseLexed ==
    /\ last.method = "lex"
    /\ modules = <<>>
    /\ tokens # <<>>
    /\ Parsed([i \in 1..Len(tokens) |-> parse(tokens[i], NoModule, <<i>>)])
    /\ UNCHANGED <<tokens, abi_types, writers, first_ops>>

\* a caller resolves the type of a node of any module, nested ones included
ResolveAny ==
    /\ modules # <<>>
    /\ \E m \in AllModules : \E nt \in NamedTypesOf(m) :
         \E method \in {"as_record", "as_enum"} :
            last' = [method |-> method, node |-> nt,
                     result |-> IF method = "as_record"
                                THEN as_record(modules, nt)
                                ELSE as_enum(modules, nt)]
    /\ UNCHANGED <<tokens, modules, abi_types, writers, first_ops>>

NextLex == Lex \/ ParseLexed \/ ResolveAny

SpecLex == InitLex /\ [][NextLex]_vars

----------------------------------------------------------------------------
(* C21 *)

IsLexed(lexeme) == lexeme.kind # "comment"

\* name, type and modifiers of a Field, FunctionArgument or
\* FunctionReturnValue
TypeShape(nt) ==
    [node |-> nt.node, name |-> nt.name, data_type |-> nt.data_type,
     modifiers |-> nt.modifiers]

TypeShapes(dict) ==
    [i \in 1..Len(dict) |-> TypeShape(DictValues(dict)[i])]

RECURSIVE Shape(_)
\* a node without the positions in the text: modules, members, names, doc
\* strings, types and modifiers
Shape(n) ==
    CASE n.node = "module" ->
           [node |-> "module", name |-> n.name, doc_string |-> n.doc_string,
            parent_module |-> n.parent_module,
            members |-> [i \in 1..Len(n.members) |-> Shape(n.members[i])],
            functions |-> DictKeys(n.functions),
            records |-> DictKeys(n.records),
            enums |-> DictKeys(n.enums)]
      [] n.node = "function" ->
           [node |-> "function", name |-> n.name, doc_string |-> n.doc_string,
            arguments |-> TypeShapes(n.arguments),
            return_values |-> TypeShapes(n.return_values)]
      [] n.node = "record" ->
           [node |-> "record", name |-> n.name, doc_string |-> n.doc_string,
            fields |-> TypeShapes(n.fields)]
      [] OTHER ->
           [node |-> "enumeration", name |-> n.name,
            doc_string |-> n.doc_string, variants |-> n.variants]

\* the shapes of the trees main builds from the lexed forms
ShapesOf(forms) ==
    [i \in 1..Len(forms) |-> Shape(parse(forms[i], NoModule, <<i>>).val)]

\* the text lexes and parses as the text without its comments does
SameAsWithout(plain) ==
    /\ last.result.raised = plain.raised
    /\ last.result.err.type = plain.err.type
    /\ last.result.err.message = plain.err.message
    /\ ~ plain.raised => Len(tokens) = Len(plain.val)
    /\ modules # <<>> =>
          [i \in 1..Len(modules) |-> Shape(modules[i])] = ShapesOf(plain.val)

\* C21: a text with comments between its lexemes, before the first form or
\* after the last lexes and parses to the same modules, members, names, doc
\* strings, types and modifiers as the text without the comments
C21_CommentsIgnored ==
    last.method = "lex" => SameAsWithout(lex_text(SelectSeq(last.node, IsLexed)))

\* a text with a comment inside a form and one after the last form was
\* lexed and parsed to a module with members
C21_Witness ==
    /\ last.method = "lex"
    /\ modules # <<>>
    /\ modules[1].members # <<>>
    /\ Len(last.node) > 2
    /\ last.node[Len(last.node)].kind = "comment"
    /\ \E i \in 2..(Len(last.node) - 1) :
         /\ last.node[i].kind = "comment"
         /\ last.node[i - 1].kind = "word"
         /\ last.node[i + 1].kind = "word"

----------------------------------------------------------------------------
(* C22 *)

\* the lexemes of the text last lexed, comments left out
PlainText == SelectSeq(last.node, IsLexed)

\* the places in PlainText where a top-level form opens: as many "(" as ")"
\* come before
TopLevelOpens ==
    { i \in 1..Len(PlainText) :
        /\ PlainText[i].kind = "("
        /\ Cardinality({j \in 1..(i - 1) : PlainText[j].kind = "("})
             = Cardinality({j \in 1..(i - 1) : PlainText[j].kind = ")"}) }

\* the name written in the k-th top-level form
TopLevelName(k) ==
    PlainText[2 + CHOOSE i \in TopLevelOpens :
                    Cardinality({j \in TopLevelOpens : j <= i}) = k].text

\* C22: a text with n top-level module forms lexes to n token trees in
\* input order; parsing gives n root modules, each without parent and with
\* members and maps built from its own form only, and a name declared only
\* in another root is not resolved
C22_IndependentRoots ==
    /\ (last.method = "lex" /\ ~ last.result.raised) =>
          /\ Len(tokens) = Cardinality(TopLevelOpens)
          /\ \A k \in 1..Len(tokens) : tokens[k][2] = TopLevelName(k)
          /\ modules # <<>> =>
                /\ Len(modules) = Len(tokens)
                /\ \A k \in 1..Len(modules) :
                     /\ modules[k].parent_module = NoModule
                     /\ is_root_module(modules[k])
                     /\ modules[k].name = tokens[k][2]
                     /\ Len(modules[k].members) = Len(tokens[k][4])
                     /\ \A i \in 1..Len(modules[k].members) :
                          /\ modules[k].members[i].parent_module = <<k>>
                          /\ modules[k].members[i].name = tokens[k][4][i][2]
                     /\ \A map \in {modules[k].functions, modules[k].records,
                                    modules[k].enums} :
                          Range(DictValues(map)) \subseteq Range(modules[k].members)
    /\ (/\ last.method \in {"as_record", "as_enum"}
        /\ last.node.data_type.cls = "str"
        /\ Len(last.node.parent_module) = 1) =>
          LET own == modules[last.node.parent_module[1]]
          IN  (/\ ~ DictHas(own.records, last.node.data_type.val)
               /\ ~ DictHas(own.enums, last.node.data_type.val))
              => /\ last.result.raised
                 /\ last.result.err = undefined_data_type(last.node)

\* in a text of two root modules a node of the second names a record that
\* only the first declares
C22_Witness ==
    /\ Len(modules) = 2
    /\ Len(tokens) = 2
    /\ last.method = "as_record"
    /\ last.node.parent_module = <<2>>
    /\ last.node.data_type.cls = "str"
    /\ DictHas(modules[1].records, last.node.data_type.val)
    /\ ~ DictHas(modules[2].records, last.node.data_type.val)
    /\ last.result.raised

----------------------------------------------------------------------------
(* C23 *)

\* the names the module with the given id declares, as direct members,
\* with the given keyword
DeclaredIn(id, keyword) ==
    { TreeAt(id)[4][i][2] :
        i \in { j \in 1..Len(TreeAt(id)[4]) : TreeAt(id)[4][j][1] = keyword } }

\* C23: a symbolic type name resolves only against the records and enums
\* declared as direct members of the module that contains the referencing
\* function or record; a declaration in the parent module, in a nested
\* module or in another root is not found and as_record/as_enum raises the
\* undefined-type error
C23_LookupInOwnModuleOnly ==
    (/\ last.method \in {"as_record", "as_enum"}
     /\ last.node.data_type.cls = "str") =>
        LET nt == last.node
            keyword == IF last.method = "as_record" THEN "rec" ELSE "enu"
            found == nt.data_type.val \in DeclaredIn(nt.parent_module, keyword)
        IN  /\ last.result.raised <=> ~ found
            /\ ~ found => last.result.err = undefined_data_type(nt)
            /\ found =>
                 /\ last.result.val.name = nt.data_type.val
                 /\ last.result.val.parent_module = nt.parent_module

\* a function of a nested module names a record that its parent module
\* declares, and the lookup raised
C23_Witness ==
    /\ last.method = "as_record"
    /\ Len(last.node.parent_module) = 2
    /\ last.node.data_type.cls = "str"
    /\ last.node.data_type.val
         \in DeclaredIn(<<last.node.parent_module[1]>>, "rec")
    /\ last.result.raised

----------------------------------------------------------------------------
(* C24 *)

\* the WriteOps of a plan, those inside its AllocOps included
AllWriteOps(plan) ==
    Range(plan.write_ops) \cup { a.write_op : a \in Range(plan.alloc_ops) }

\* target is the slot, or the slot followed by " + " and addends
AtSlot(target, slot) ==
    /\ StartsWith(target, slot)
    /\ Len(target) > Len(slot) => target[Len(slot) + 1] = " + "

\* the slots Types.wrapper_out declares for a return value
OutSlots(rv) ==
    { to_safe_snakecase(rv.name) \o <<"_out">>,
      to_safe_snakecase(rv.name) \o <<"_out_len">> }

\* C24: in the plan of a function every target begins with a slot that
\* wrapper_out declares for one of that function's return values, at every
\* depth of nesting
C24_TargetsInOwnSlots ==
    \A fn \in PlannedOk : \A op \in AllWriteOps(PlanOf(fn)) :
        \E rv \in Range(DictValues(fn.return_values)) :
            \E slot \in OutSlots(rv) : AtSlot(op.target, slot)

----------------------------------------------------------------------------
(* C25 *)

\* the return values of record type, lists of records aside
RecordValues(fn) ==
    { rv \in Range(DictValues(fn.return_values)) :
        is_record(modules, rv) /\ ~ is_list(rv) }

\* the ops of the plan that write into the slot of a return value
OpsInSlotOf(fn, rv) ==
    { op \in AllWriteOps(PlanOf(fn)) :
        AtSlot(op.target, to_safe_snakecase(rv.name) \o <<"_out">>) }

\* C25: in a function with several return values the source of every op that
\* comes from a field of a record-typed return value is qualified by the name
\* of that return value
C25_QualifiedSources ==
    \A fn \in PlannedOk :
        Len(DictValues(fn.return_values)) > 1 =>
            \A rv \in RecordValues(fn) : \A op \in OpsInSlotOf(fn, rv) :
                StartsWith(op.source, to_safe_snakecase(rv.name) \o <<".">>)

----------------------------------------------------------------------------
(* C26 *)

\* the return values written as a bare string
BareStrings(fn) ==
    { rv \in Range(DictValues(fn.return_values)) :
        as_datatype(rv) = DataType(s_string) /\ ~ is_list(rv) }

\* the AllocOps of the plan whose pointer goes to the slot of a return value
AllocsOf(fn, rv) ==
    { a \in Range(PlanOf(fn).alloc_ops) :
        a.write_op.target = to_safe_snakecase(rv.name) \o <<"_out">> }

\* C26: the AllocOp of a bare string return value has the element type u8,
\* the element type of bytes
C26_StringElementsAreBytes ==
    \A fn \in PlannedOk : \A rv \in BareStrings(fn) :
        \A a \in AllocsOf(fn, rv) : a.item_type = StrItem(<<"u8">>)

----------------------------------------------------------------------------
(* C27 *)

\* ReturnValueWriter._data_source_name: an empty source is falsy
data_source_name(data, op) ==
    IF op.source # <<>> THEN data \o <<".">> \o op.source ELSE data

\* ReturnValueWriter._write_op: the statement that stores one value
write_op(data, op) ==
    <<"*(unsafe { mem_base.add(">> \o op.target \o <<" as usize)">>
    \o <<" as *mut ">> \o op.rust_type \o <<"}) = ">>
    \o data_source_name(data, op) \o <<" as ">> \o op.rust_type

\* the names generate is called with
DataNames == { <<"data">>, <<"item">> }

\* the text between "= " and the closing " as <type>" of a statement
RenderedSource(statement) ==
    LET eq == CHOOSE i \in 1..Len(statement) : statement[i] = "}) = "
    IN  SubSeq(statement, eq + 1, Len(statement) - 2)

\* path is data followed by components, each non-empty and preceded by
\* exactly one dot
WellFormedPath(data, path) ==
    /\ StartsWith(path, data)
    /\ LET rest == SubSeq(path, Len(data) + 1, Len(path))
       IN  /\ rest # <<>> => rest[1] = "."
           /\ \A i \in 1..Len(rest) :
                rest[i] = "." => i < Len(rest) /\ rest[i + 1] # "."

\* the function returns one value, a list or a string
SoleListOrString(fn) ==
    /\ Len(DictValues(fn.return_values)) = 1
    /\ ListOrString(DictValues(fn.return_values)[1])

\* C27: the source _write_op renders for a WriteOp of a plan is a
\* well-formed path from the data source name; the length of the one list
\* or string return value of a function renders as "<data>.len()"
C27_WellFormedSources ==
    \A fn \in PlannedOk : \A data \in DataNames :
        \A op \in Range(PlanOf(fn).write_ops) :
            LET path == RenderedSource(write_op(data, op))
            IN  /\ WellFormedPath(data, path)
                /\ (IsLen(op) /\ SoleListOrString(fn))
                       => path = data \o <<".", "len()">>

----------------------------------------------------------------------------
(* C28 *)

\* the records that hold a field
OwnerRecords(field) ==
    { rec \in UNION { Range(DictValues(m.records)) : m \in AllModules } :
        field \in Range(DictValues(rec.fields)) }

\* the declaration names a lifetime: in a reference or in the parameter
\* list of a record type
CarriesLifetime(decl) == HasPiece(decl, "&'") \/ HasPiece(decl, "'")

\* C28: when struct_field emits for a field of a record a type that carries
\* the lifetime parameter, Lifetime.struct on the fields of that record with
\* the same lifetime name is a non-empty declaration
C28_LifetimeDeclaredWhereUsed ==
    (/\ last.method \in {"struct_field", "struct_field pub"}
     /\ ~ last.result.raised
     /\ CarriesLifetime(last.result.val))
    => \A rec \in OwnerRecords(last.node) :
          Lifetime_struct(rec.fields, last.lifetime_name, DefaultFmt) # <<>>

----------------------------------------------------------------------------
(* C29 *)

\* the ops of a plan that hold a pointer or a length
SizeOps(plan) ==
    Range(LenOps(plan)) \cup { a.write_op : a \in Range(plan.alloc_ops) }

\* the argument crosses the boundary as a pointer
PassedByPointer(arg) ==
    \/ ListOrBytes(arg)
    \/ DeclaresRecord(arg)
    \/ TypeTokenOf(arg).name = s_string

\* the offset of a length slot is one size type after its pointer slot
LenOffsetOf(op, size) ==
    \/ ~ HasPiece(op.target, " + ")
    \/ SubSeq(op.target, Len(op.target) - 2, Len(op.target)) = size_of(size)

\* C29: with Types built for an ABI size, the type wrapper_in gives the
\* arguments passed by pointer, the type of the slots of wrapper_out, and
\* the width of the pointer and length ops of every plan and of the offset
\* of a length slot are the one size type of that ABI size
C29_OneSizeType ==
    (/\ last.method \in {"wrapper_in", "wrapper_out"}
     /\ ~ last.result.raised) =>
        LET size == last.self.abi_size_type
            name == to_safe_snakecase(last.node.name)
        IN  /\ (last.method = "wrapper_in" /\ PassedByPointer(last.node))
                  => StartsWith(last.result.val, name \o <<": ">> \o size)
            /\ last.method = "wrapper_out"
                  => StartsWith(last.result.val, name \o <<"_out: ">> \o size)
            /\ \A fn \in PlannedOk : \A op \in SizeOps(PlanOf(fn)) :
                  /\ op.rust_type = size
                  /\ IsLen(op) => LenOffsetOf(op, size)

----------------------------------------------------------------------------
(* Records that hold themselves. The text is                               *)
(*     (mod m (rec a (:x T ...)) (rec b (:y U)) (fun f () (:r a))          *)
(*            (fun g () (:v b :w int)))                                    *)

CyclicFieldTypes ==
    { Written(s_int, <<>>), Written(s_string, <<>>),
      Written(<<"a">>, <<>>), Written(<<"a">>, <<s_list>>),
      Written(<<"b">>, <<>>) }

CyclicLinkTypes ==
    { Written(s_bool, <<>>), Written(<<"a">>, <<>>), Written(<<"b">>, <<>>),
      Written(<<"b">>, <<s_list>>) }

lex_cyclic(fields, link) ==
    << << "mod", <<"m">>, <<>>,
          << lex_rec(<<"a">>, SubSeq(FieldNames, 1, Len(fields)), fields, 2),
             lex_rec(<<"b">>, << <<"y">> >>, <<link>>, 3),
             lex_fun(<<"f">>, << <<"r">> >>, << Written(<<"a">>, <<>>) >>, 4),
             lex_fun(<<"g">>, << <<"v">>, <<"w">> >>,
                     << Written(<<"b">>, <<>>), Written(s_int, <<>>) >>, 5)
          >> >> >>

CyclicSchemas ==
    { lex_cyclic(fields, link) :
        fields \in SeqsUpTo(CyclicFieldTypes, 2), link \in CyclicLinkTypes }

InitCyclic ==
    /\ tokens \in CyclicSchemas
    /\ modules = <<>>
    /\ abi_types = abi_types_initial
    /\ writers = <<>>
    /\ first_ops = <<>>
    /\ last = NoCall

NextCyclic == Parse \/ PlanFunction \/ Generate

\* parsing and planning of modules whose records may hold themselves
SpecCyclic == InitCyclic /\ [][NextCyclic]_vars

----------------------------------------------------------------------------
(* C30 *)

\* C30: the construction of the plan of every function ends by itself, with
\* a plan or with an error, and never by using up the call stack
C30_PlanConstructionEnds ==
    \A fn \in AllFunctions :
        DictHas(writers, fn.id) => PlanOf(fn).err # RecursionError

====
